---- MODULE Spec2Model ----
(***************************************************************************)
(* A model of the HTML diff engine (HtmlDiff, BlockAnalyzer, Utils).       *)
(*                                                                         *)
(* Strings are sequences of one-character strings, so that the regular     *)
(* expressions of Utils.ts, the joins and the slices of the engine are     *)
(* computed on the characters themselves.  A token is such a string; a     *)
(* token array is a sequence of them.                                      *)
(***************************************************************************)
EXTENDS Integers, Sequences, FiniteSets, TLC

(***************************************************************************)
(* Characters and strings                                                  *)
(***************************************************************************)

\* \s of the regular expressions, over the characters the model uses
WhitespaceChars == {" "}

Letters ==
    {"a", "b", "c", "d", "e", "f", "g", "h", "i", "j", "k", "l", "m",
     "n", "o", "p", "q", "r", "s", "t", "u", "v", "w", "x", "y", "z"}

Digits == {"0", "1", "2", "3", "4", "5", "6", "7", "8", "9"}

\* [\w#@] of wordRegex
WordChars == Letters \cup Digits \cup {"_", "#", "@"}

\* the value standing for null / undefined / no regex match
NULL == <<>>

Max2(a, b) == IF a >= b THEN a ELSE b

Min2(a, b) == IF a <= b THEN a ELSE b

\* Array.prototype.slice(from, to) on 0-based indices, to exclusive
Slice(s, from, to) ==
    LET f == Max2(from, 0)
        t == Min2(to, Len(s))
    IN  IF f >= t THEN <<>> ELSE SubSeq(s, f + 1, t)

\* Array.prototype.join(""): the concatenation of a sequence of strings
RECURSIVE Join(_)
Join(ws) == IF ws = <<>> THEN <<>> ELSE Head(ws) \o Join(Tail(ws))

\* String.prototype.startsWith
StartsWith(s, pre) == Len(s) >= Len(pre) /\ SubSeq(s, 1, Len(pre)) = pre

\* String.prototype.endsWith
EndsWith(s, suf) ==
    Len(s) >= Len(suf) /\ SubSeq(s, Len(s) - Len(suf) + 1, Len(s)) = suf

\* the number of leading characters of s, from position i on, that are in set
RECURSIVE RunLength(_, _, _)
RunLength(s, i, set) ==
    IF i > Len(s) \/ s[i] \notin set THEN 0 ELSE 1 + RunLength(s, i + 1, set)

\* String.prototype.includes
Contains(s, sub) ==
    \E i \in 1..(Len(s) - Len(sub) + 1) : SubSeq(s, i, i + Len(sub) - 1) = sub

(***************************************************************************)
(* Utils.ts                                                                *)
(***************************************************************************)

specialCaseWordTags == {<<"<", "i", "m", "g">>}

blockLevelElements ==
    {<<"p">>, <<"d", "i", "v">>, <<"u", "l">>, <<"o", "l">>, <<"l", "i">>,
     <<"h", "1">>, <<"h", "2">>, <<"h", "3">>, <<"h", "4">>, <<"h", "5">>,
     <<"h", "6">>, <<"b", "l", "o", "c", "k", "q", "u", "o", "t", "e">>,
     <<"p", "r", "e">>, <<"t", "a", "b", "l", "e">>, <<"t", "r">>,
     <<"t", "d">>, <<"t", "h">>, <<"t", "h", "e", "a", "d">>,
     <<"t", "b", "o", "d", "y">>, <<"t", "f", "o", "o", "t">>,
     <<"a", "r", "t", "i", "c", "l", "e">>,
     <<"s", "e", "c", "t", "i", "o", "n">>, <<"a", "s", "i", "d", "e">>,
     <<"h", "e", "a", "d", "e", "r">>, <<"f", "o", "o", "t", "e", "r">>,
     <<"n", "a", "v">>, <<"m", "a", "i", "n">>,
     <<"f", "i", "g", "u", "r", "e">>,
     <<"f", "i", "g", "c", "a", "p", "t", "i", "o", "n">>,
     <<"d", "l">>, <<"d", "t">>, <<"d", "d">>}

\* tagRegex = /^\s*<\/?[^>]+>\s*$/ : optional whitespace, "<", at least one
\* character other than ">", ">", optional whitespace
tagRegexTest(item) ==
    LET lead  == RunLength(item, 1, WhitespaceChars)
        open  == lead + 1
        close == open + 1 + RunLength(item, open + 1,
                                      {item[k] : k \in 1..Len(item)} \ {">"})
    IN  /\ open <= Len(item)
        /\ item[open] = "<"
        /\ close <= Len(item)
        /\ close >= open + 2
        /\ item[close] = ">"
        /\ close + RunLength(item, close + 1, WhitespaceChars) = Len(item)

isTag(item) ==
    IF \E re \in specialCaseWordTags : StartsWith(item, re)
    THEN FALSE
    ELSE tagRegexTest(item)

\* tagWordRegex = /<[^\s>]+/ : the first "<" that is followed by a character
\* that is neither whitespace nor ">", and the run of such characters after it
tagWordRegexExec(word) ==
    LET notWord == WhitespaceChars \cup {">"}
        starts  == {i \in 1..(Len(word) - 1) :
                        word[i] = "<" /\ word[i + 1] \notin notWord}
    IN  IF starts = {} THEN <<>>
        ELSE LET i == CHOOSE k \in starts : \A m \in starts : k <= m
                 n == RunLength(word, i + 1,
                                {word[k] : k \in 1..Len(word)} \ notWord)
             IN  SubSeq(word, i, i + n)

stripTagAttributes(word) ==
    tagWordRegexExec(word)
        \o (IF EndsWith(word, <<"/", ">">>) THEN <<"/", ">">> ELSE <<">">>)

stripAnyAttributes(word) ==
    IF isTag(word) THEN stripTagAttributes(word) ELSE word

\* whitespaceRegex = /^(\s|&nbsp;)+$/
isWhiteSpace(value) ==
    value # <<>> /\ RunLength(value, 1, WhitespaceChars) = Len(value)

\* wordRegex = /[\w\#@]+/ (unanchored)
isWord(text) == \E k \in 1..Len(text) : text[k] \in WordChars

\* /^<\/?([a-zA-Z][a-zA-Z0-9]*)/i, lower-cased; NULL when there is no match
getTagName(tag) ==
    IF Len(tag) < 2 \/ tag[1] # "<" THEN NULL
    ELSE LET from == IF tag[2] = "/" THEN 3 ELSE 2
         IN  IF from > Len(tag) \/ tag[from] \notin Letters THEN NULL
             ELSE SubSeq(tag, from,
                         from + RunLength(tag, from, Letters \cup Digits) - 1)

isBlockLevelTag(tag) ==
    LET tagName == getTagName(tag)
    IN  tagName # NULL /\ tagName \in blockLevelElements

isOpeningTag(tag) ==
    isTag(tag) /\ ~StartsWith(tag, <<"<", "/">>) /\ ~EndsWith(tag, <<"/", ">">>)

isClosingTag(tag) == isTag(tag) /\ StartsWith(tag, <<"<", "/">>)

isSelfClosingTag(tag) == isTag(tag) /\ EndsWith(tag, <<"/", ">">>)

\* ["<", tagName, ' class="', cssClass, '">', text, "</", tagName, ">"].join("")
wrapText(text, tagName, cssClass) ==
    <<"<">> \o tagName \o <<" ", "c", "l", "a", "s", "s", "=", "\"">>
        \o cssClass \o <<"\"", ">">> \o text \o <<"<", "/">> \o tagName
        \o <<">">>

(***************************************************************************)
(* WordSplitter (the tokenizer)                                            *)
(***************************************************************************)

\* the names of the inline emphasis tags whose attributes are not stripped
specialCaseTagNames ==
    {<<"s", "t", "r", "o", "n", "g">>, <<"b">>, <<"i">>, <<"d", "f", "n">>,
     <<"e", "m">>, <<"b", "i", "g">>, <<"s", "m", "a", "l", "l">>, <<"u">>,
     <<"s", "u", "b">>, <<"s", "u", "p">>,
     <<"s", "t", "r", "i", "k", "e">>, <<"s">>}

\* the position of the ">" that ends the tag opened at position i, or 0 when
\* the end of input or another "<" comes first
tagEnd(text, i) ==
    LET n == RunLength(text, i + 1,
                       {text[k] : k \in 1..Len(text)} \ {"<", ">"})
        e == i + 1 + n
    IN  IF e <= Len(text) /\ text[e] = ">" /\ n >= 1 THEN e ELSE 0

\* one token starting at position i: <<the token, the position after it>>
nextWord(text, i) ==
    LET c == text[i]
    IN  IF c = "<" /\ tagEnd(text, i) # 0
        THEN <<SubSeq(text, i, tagEnd(text, i)), tagEnd(text, i) + 1>>
        ELSE IF c \in WhitespaceChars
        THEN LET n == RunLength(text, i, WhitespaceChars)
             IN  <<SubSeq(text, i, i + n - 1), i + n>>
        ELSE IF c \in WordChars
        THEN LET n == RunLength(text, i, WordChars)
             IN  <<SubSeq(text, i, i + n - 1), i + n>>
        ELSE <<(<<c>>), i + 1>>

\* the pair [comparison form, original form] of a token; the original is NULL
\* unless the token is a tag whose attributes were stripped
wordPair(word) ==
    IF isTag(word) /\ getTagName(word) \notin specialCaseTagNames
    THEN <<stripTagAttributes(word), word>>
    ELSE <<word, NULL>>

RECURSIVE splitFrom(_, _)
splitFrom(text, i) ==
    IF i > Len(text) THEN <<>>
    ELSE LET w == nextWord(text, i)
         IN  <<wordPair(w[1])>> \o splitFrom(text, w[2])

convertHtmlToListOfWords(text) == splitFrom(text, 1)

(***************************************************************************)
(* BlockAnalyzer.ts                                                        *)
(***************************************************************************)

\* the constructor's equivalence map: every element of every group is mapped
\* to its group, a later group replacing an earlier one for a shared element
RECURSIVE equivalentTypesMap(_)
equivalentTypesMap(groups) ==
    IF groups = <<>> THEN <<>>
    ELSE LET n     == Len(groups)
             group == groups[n]
             rest  == equivalentTypesMap(SubSeq(groups, 1, n - 1))
             set   == {group[k] : k \in 1..Len(group)}
             kept  == SelectSeq(rest, LAMBDA e : e[1] \notin set)
         IN  kept \o [k \in 1..Len(group) |-> <<group[k], set>>]

\* Map.get: the group of a tag name, or {} (undefined)
equivalentGroup(map, tag) ==
    IF \E k \in 1..Len(map) : map[k][1] = tag
    THEN map[CHOOSE k \in 1..Len(map) : map[k][1] = tag][2]
    ELSE {}

\* isSameBlockType without the equivalence groups
isSameBlockTypeExact(map, block1, block2) ==
    IF block1 = NULL \/ block2 = NULL THEN FALSE
    ELSE block1.tagName = block2.tagName

isSameBlockType(map, block1, block2) ==
    IF block1 = NULL \/ block2 = NULL THEN FALSE
    ELSE IF block1.tagName = block2.tagName THEN TRUE
    ELSE block2.tagName \in equivalentGroup(map, block1.tagName)

matchBlocksByPositionInit == [pairs |-> <<>>, oldIdx |-> 0, newIdx |-> 0]

\* oldBlocks[oldIdx] || null
blockAt(blocks, idx) == IF idx < Len(blocks) THEN blocks[idx + 1] ELSE NULL

\* while (oldIdx < oldBlocks.length || newIdx < newBlocks.length)
matchBlocksByPositionGoesOn(st, oldBlocks, newBlocks) ==
    st.oldIdx < Len(oldBlocks) \/ st.newIdx < Len(newBlocks)

\* matchBlocksByPositionStep without newIdx++ where both blocks exist
matchBlocksByPositionStepOldOnly(st, oldBlocks, newBlocks) ==
    LET oldBlock == blockAt(oldBlocks, st.oldIdx)
        newBlock == blockAt(newBlocks, st.newIdx)
        pair     == [oldBlock |-> oldBlock, newBlock |-> newBlock]
    IN  IF oldBlock = NULL
        THEN [pairs |-> Append(st.pairs, pair), oldIdx |-> st.oldIdx,
              newIdx |-> st.newIdx + 1]
        ELSE [pairs |-> Append(st.pairs, pair), oldIdx |-> st.oldIdx + 1,
              newIdx |-> st.newIdx]

\* one iteration of the loop of matchBlocksByPosition
matchBlocksByPositionStep(st, oldBlocks, newBlocks) ==
    LET oldBlock == blockAt(oldBlocks, st.oldIdx)
        newBlock == blockAt(newBlocks, st.newIdx)
        pair     == [oldBlock |-> oldBlock, newBlock |-> newBlock]
    IN  IF oldBlock = NULL
        THEN [pairs |-> Append(st.pairs, pair), oldIdx |-> st.oldIdx,
              newIdx |-> st.newIdx + 1]
        ELSE IF newBlock = NULL
        THEN [pairs |-> Append(st.pairs, pair), oldIdx |-> st.oldIdx + 1,
              newIdx |-> st.newIdx]
        ELSE [pairs |-> Append(st.pairs, pair), oldIdx |-> st.oldIdx + 1,
              newIdx |-> st.newIdx + 1]

\* nearestOpen searching the stack from the bottom
farthestOpen(stack, tagName) ==
    LET same == {j \in 1..Len(stack) : stack[j].tagName = tagName}
    IN  IF same = {} THEN 0 ELSE CHOOSE j \in same : \A k \in same : j <= k

\* the stack index (1-based) of the entry nearest the top with this tag name,
\* or 0
nearestOpen(stack, tagName) ==
    LET same == {j \in 1..Len(stack) : stack[j].tagName = tagName}
    IN  IF same = {} THEN 0 ELSE CHOOSE j \in same : \A k \in same : k <= j

RemoveAt(s, j) == SubSeq(s, 1, j - 1) \o SubSeq(s, j + 1, Len(s))

\* findBlocksStep without the test of the opening tag's depth
findBlocksStepAnyDepth(st, word, i) ==
    LET tagName == getTagName(word)
    IN  IF ~isTag(word) THEN st
        ELSE IF tagName = NULL \/ tagName \notin blockLevelElements THEN st
        ELSE IF isOpeningTag(word)
        THEN [st EXCEPT
                !.stack = Append(@, [tagName |-> tagName, startIndex |-> i,
                                     depth |-> st.currentDepth]),
                !.currentDepth = @ + 1]
        ELSE IF isClosingTag(word) /\ Len(st.stack) > 0
        THEN LET j == nearestOpen(st.stack, tagName)
             IN  IF j = 0 THEN st
                 ELSE [stack |-> RemoveAt(st.stack, j),
                       currentDepth |-> st.currentDepth - 1,
                       blocks |-> Append(st.blocks,
                                         [tagName |-> st.stack[j].tagName,
                                          startIndex |-> st.stack[j].startIndex,
                                          endIndex |-> i,
                                          depth |-> st.stack[j].depth])]
        ELSE st

\* findBlocksStep without currentDepth-- in the closing branch
findBlocksStepDepthKept(st, word, i) ==
    LET tagName == getTagName(word)
    IN  IF ~isTag(word) THEN st
        ELSE IF tagName = NULL \/ tagName \notin blockLevelElements THEN st
        ELSE IF isOpeningTag(word)
        THEN [st EXCEPT
                !.stack = Append(@, [tagName |-> tagName, startIndex |-> i,
                                     depth |-> st.currentDepth]),
                !.currentDepth = @ + 1]
        ELSE IF isClosingTag(word) /\ Len(st.stack) > 0
        THEN LET j == nearestOpen(st.stack, tagName)
             IN  IF j = 0 THEN st
                 ELSE [stack |-> RemoveAt(st.stack, j),
                       currentDepth |-> st.currentDepth,
                       blocks |->
                           IF st.stack[j].depth = 0
                           THEN Append(st.blocks,
                                       [tagName |-> st.stack[j].tagName,
                                        startIndex |-> st.stack[j].startIndex,
                                        endIndex |-> i,
                                        depth |-> st.stack[j].depth])
                           ELSE st.blocks]
        ELSE st

\* one iteration of the loop of findBlocks, on the token at 0-based index i
findBlocksStep(st, word, i) ==
    LET tagName == getTagName(word)
    IN  IF ~isTag(word) THEN st
        ELSE IF tagName = NULL \/ tagName \notin blockLevelElements THEN st
        ELSE IF isOpeningTag(word)
        THEN [st EXCEPT
                !.stack = Append(@, [tagName |-> tagName, startIndex |-> i,
                                     depth |-> st.currentDepth]),
                !.currentDepth = @ + 1]
        ELSE IF isClosingTag(word) /\ Len(st.stack) > 0
        THEN LET j == nearestOpen(st.stack, tagName)
             IN  IF j = 0 THEN st
                 ELSE LET openingTag == st.stack[j]
                      IN  [stack |-> RemoveAt(st.stack, j),
                           currentDepth |-> st.currentDepth - 1,
                           blocks |->
                             IF openingTag.depth = 0
                             THEN Append(st.blocks,
                                         [tagName |-> openingTag.tagName,
                                          startIndex |-> openingTag.startIndex,
                                          endIndex |-> i,
                                          depth |-> openingTag.depth])
                             ELSE st.blocks]
        ELSE st

findBlocksInit == [blocks |-> <<>>, stack |-> <<>>, currentDepth |-> 0]

\* the state of findBlocks after its first n tokens
RECURSIVE findBlocksLoop(_, _)
findBlocksLoop(words, n) ==
    IF n = 0 THEN findBlocksInit
    ELSE findBlocksStep(findBlocksLoop(words, n - 1), words[n], n - 1)

\* blocks.sort((a, b) => a.startIndex - b.startIndex)
RECURSIVE sortByStartIndex(_)
sortByStartIndex(blocks) ==
    IF blocks = <<>> THEN <<>>
    ELSE LET first == CHOOSE k \in 1..Len(blocks) :
                          \A m \in 1..Len(blocks) :
                              \/ blocks[k].startIndex < blocks[m].startIndex
                              \/ /\ blocks[k].startIndex = blocks[m].startIndex
                                 /\ k <= m
         IN  <<blocks[first]>> \o sortByStartIndex(RemoveAt(blocks, first))

findBlocks(words) ==
    sortByStartIndex(findBlocksLoop(words, Len(words)).blocks)

\* words.slice(block.startIndex, block.endIndex + 1).join("")
getBlockContent(words, block) ==
    Join(Slice(words, block.startIndex, block.endIndex + 1))

\* words.slice(block.startIndex + 1, block.endIndex)
getBlockInnerWords(words, block) ==
    Slice(words, block.startIndex + 1, block.endIndex)

(***************************************************************************)
(* Match, MatchFinder                                                      *)
(***************************************************************************)

Match(startInOld, startInNew, size) ==
    [startInOld |-> startInOld, startInNew |-> startInNew, size |-> size]

endInOld(match) == match.startInOld + match.size

endInNew(match) == match.startInNew + match.size

repeatingWordsAccuracy == 1

\* this.orphanMatchThreshold, a fraction: the number num / den
VARIABLE orphanMatchThreshold

\* this.orphanMatchThreshold = 0.0
DefaultOrphanMatchThreshold == [num |-> 0, den |-> 1]

\* the key of the group of blockSize tokens that ends at 0-based index i
groupKey(words, i, blockSize) == Join(Slice(words, i - blockSize + 1, i + 1))

\* the 0-based indices of the new window at which a whole group ends
groupEnds(from, to, blockSize) == {i \in from..(to - 1) : i - from + 1 >= blockSize}

\* indexNewWords and removeRepeatingWords: the positions in the new window of
\* the group with this key, none when the group repeats too often
wordIndices(newWords, w, blockSize, key) ==
    LET at == {j \in groupEnds(w.startInNew, w.endInNew, blockSize) :
                   groupKey(newWords, j, blockSize) = key}
    IN  IF Cardinality(at) > Len(newWords) * repeatingWordsAccuracy
        THEN {}
        ELSE at

\* matchLengthAt after the group that has these positions in the new window:
\* newMatchLength = (matchLengthAt[indexInNew - 1] || 0) + 1
newMatchLengthAt(at, matchLengthAt) ==
    [j \in at |-> (IF (j - 1) \in DOMAIN matchLengthAt
                   THEN matchLengthAt[j - 1] ELSE 0) + 1]

\* <<bestMatchInOld, bestMatchInNew, bestMatchSize>> when the group ending at
\* indexInOld has matched up to position j of the new window
bestAt(indexInOld, blockSize, lengths, j) ==
    <<indexInOld - lengths[j] - blockSize + 2,
      j - lengths[j] - blockSize + 2, lengths[j]>>

\* the best after the group ending at indexInOld: the positions are visited
\* in ascending order and only a strictly longer match replaces the best
newBest(indexInOld, blockSize, lengths, best) ==
    IF \A j \in DOMAIN lengths : lengths[j] <= best[3] THEN best
    ELSE bestAt(indexInOld, blockSize, lengths,
                CHOOSE j \in DOMAIN lengths :
                    \A k \in DOMAIN lengths :
                        \/ lengths[j] > lengths[k]
                        \/ lengths[j] = lengths[k] /\ j <= k)

\* the loop of MatchFinder.findMatch over the old window, from indexInOld on;
\* best is <<bestMatchInOld, bestMatchInNew, bestMatchSize>>
RECURSIVE finderLoop(_, _, _, _, _, _, _)
finderLoop(oldWords, newWords, w, blockSize, indexInOld, matchLengthAt, best) ==
    IF indexInOld >= w.endInOld THEN best
    ELSE IF indexInOld - w.startInOld + 1 < blockSize
    THEN finderLoop(oldWords, newWords, w, blockSize, indexInOld + 1,
                    matchLengthAt, best)
    ELSE finderLoop(oldWords, newWords, w, blockSize, indexInOld + 1,
             newMatchLengthAt(
                 wordIndices(newWords, w, blockSize,
                             groupKey(oldWords, indexInOld, blockSize)),
                 matchLengthAt),
             newBest(indexInOld, blockSize,
                 newMatchLengthAt(
                     wordIndices(newWords, w, blockSize,
                                 groupKey(oldWords, indexInOld, blockSize)),
                     matchLengthAt),
                 best))

\* bestMatchSize !== 0 ? new Match(bestMatchInOld, bestMatchInNew,
\* bestMatchSize + blockSize - 1) : null
matchOfBest(best, blockSize) ==
    IF best[3] # 0
    THEN Match(best[1], best[2], best[3] + blockSize - 1)
    ELSE NULL

\* MatchFinder.findMatch: the best Match of the two windows at this group
\* size, or NULL
finderFindMatch(oldWords, newWords, w, blockSize) ==
    matchOfBest(finderLoop(oldWords, newWords, w, blockSize, w.startInOld,
                           <<>>, <<w.startInOld, w.startInNew, 0>>),
                blockSize)

(***************************************************************************)
(* HtmlDiff: matching and the edit script                                  *)
(***************************************************************************)

MatchGranularityMaximum == 4

Window(startInOld, endInOldW, startInNew, endInNewW) ==
    [startInOld |-> startInOld, endInOld |-> endInOldW,
     startInNew |-> startInNew, endInNew |-> endInNewW]

\* if (match !== null) return match; otherwise the loop goes on
matchOr(match, otherwise) == IF match # NULL THEN match ELSE otherwise

\* findMatchFrom with the loop ended before granularity 1: i > 1
RECURSIVE findMatchFromAboveOne(_, _, _, _)
findMatchFromAboveOne(oldWords, newWords, w, i) ==
    IF i <= 1 THEN NULL
    ELSE matchOr(finderFindMatch(oldWords, newWords, w, i),
                 findMatchFromAboveOne(oldWords, newWords, w, i - 1))

\* for (let i = this.matchGranularity; i > 0; i--): the first granularity,
\* counting down from i, at which the finder finds a match
RECURSIVE findMatchFrom(_, _, _, _)
findMatchFrom(oldWords, newWords, w, i) ==
    IF i <= 0 THEN NULL
    ELSE matchOr(finderFindMatch(oldWords, newWords, w, i),
                 findMatchFrom(oldWords, newWords, w, i - 1))

findMatch(oldWords, newWords, matchGranularity, w) ==
    findMatchFrom(oldWords, newWords, w, matchGranularity)

\* the object the module MatchOptions exports, one for all HtmlDiff instances
VARIABLE MatchOptions

\* the object as the module exports it, before any diff
DefaultMatchOptions ==
    [blockSize |-> 0, repeatingWordsAccuracy |-> 0,
     ignoreWhitespaceDifferences |-> FALSE]

ignoreWhiteSpaceDifferences == FALSE

\* let options = MatchOptions; options.blockSize = i; ...: the object after
\* the three assignments
optionsWritten(options, i) ==
    [options EXCEPT !.blockSize = i,
                    !.repeatingWordsAccuracy = repeatingWordsAccuracy,
                    !.ignoreWhitespaceDifferences = ignoreWhiteSpaceDifferences]

\* the object after the loop of findMatch from granularity i on
RECURSIVE optionsAfterFindMatchFrom(_, _, _, _, _)
optionsAfterFindMatchFrom(options, oldWords, newWords, w, i) ==
    IF i <= 0 THEN options
    ELSE IF finderFindMatch(oldWords, newWords, w, i) # NULL
    THEN optionsWritten(options, i)
    ELSE optionsAfterFindMatchFrom(optionsWritten(options, i), oldWords,
                                   newWords, w, i - 1)

RECURSIVE optionsAfterFindMatchingBlocks(_, _, _, _, _)
\* the object after the body of findMatchingBlocks once findMatch has
\* returned match and left the object as found
optionsAfterMatchingBlocksAround(found, oldWords, newWords, matchGranularity, w, match) ==
    IF match = NULL THEN found
    ELSE IF endInOld(match) < w.endInOld /\ endInNew(match) < w.endInNew
    THEN optionsAfterFindMatchingBlocks(
             IF w.startInOld < match.startInOld
                 /\ w.startInNew < match.startInNew
             THEN optionsAfterFindMatchingBlocks(found, oldWords, newWords,
                      matchGranularity,
                      Window(w.startInOld, match.startInOld,
                             w.startInNew, match.startInNew))
             ELSE found,
             oldWords, newWords, matchGranularity,
             Window(endInOld(match), w.endInOld, endInNew(match), w.endInNew))
    ELSE IF w.startInOld < match.startInOld /\ w.startInNew < match.startInNew
    THEN optionsAfterFindMatchingBlocks(found, oldWords, newWords,
             matchGranularity,
             Window(w.startInOld, match.startInOld,
                    w.startInNew, match.startInNew))
    ELSE found

optionsAfterFindMatchingBlocks(options, oldWords, newWords, matchGranularity, w) ==
    optionsAfterMatchingBlocksAround(
        optionsAfterFindMatchFrom(options, oldWords, newWords, w,
                                  matchGranularity),
        oldWords, newWords, matchGranularity, w,
        findMatch(oldWords, newWords, matchGranularity, w))

\* the object after operations(): the only calls of findMatch are those of
\* matchingBlocks()
optionsAfterOperations(options, oldWords, newWords, matchGranularity) ==
    optionsAfterFindMatchingBlocks(options, oldWords, newWords,
        matchGranularity, Window(0, Len(oldWords), 0, Len(newWords)))

RECURSIVE findMatchingBlocks(_, _, _, _)
\* matchingBlocksAround with the window before the match not ended at the
\* match in new
matchingBlocksAroundOpenInNew(oldWords, newWords, matchGranularity, w, match) ==
    IF match = NULL THEN <<>>
    ELSE (IF w.startInOld < match.startInOld
              /\ w.startInNew < match.startInNew
          THEN findMatchingBlocks(oldWords, newWords, matchGranularity,
                   Window(w.startInOld, match.startInOld,
                          w.startInNew, w.endInNew))
          ELSE <<>>)
         \o <<match>>
         \o (IF endInOld(match) < w.endInOld
                /\ endInNew(match) < w.endInNew
             THEN findMatchingBlocks(oldWords, newWords, matchGranularity,
                      Window(endInOld(match), w.endInOld,
                             endInNew(match), w.endInNew))
             ELSE <<>>)

\* the body of findMatchingBlocks once findMatch has returned match
matchingBlocksAround(oldWords, newWords, matchGranularity, w, match) ==
    IF match = NULL THEN <<>>
    ELSE (IF w.startInOld < match.startInOld
              /\ w.startInNew < match.startInNew
          THEN findMatchingBlocks(oldWords, newWords, matchGranularity,
                   Window(w.startInOld, match.startInOld,
                          w.startInNew, match.startInNew))
          ELSE <<>>)
         \o <<match>>
         \o (IF endInOld(match) < w.endInOld
                /\ endInNew(match) < w.endInNew
             THEN findMatchingBlocks(oldWords, newWords, matchGranularity,
                      Window(endInOld(match), w.endInOld,
                             endInNew(match), w.endInNew))
             ELSE <<>>)

findMatchingBlocks(oldWords, newWords, matchGranularity, w) ==
    matchingBlocksAround(oldWords, newWords, matchGranularity, w,
                         findMatch(oldWords, newWords, matchGranularity, w))

RECURSIVE recursiveCalls(_, _, _, _)
\* recursiveCallsAround with the window before the match not ended at the
\* match in new
recursiveCallsAroundOpenInNew(oldWords, newWords, matchGranularity, w, match) ==
    IF match = NULL THEN {}
    ELSE LET before == Window(w.startInOld, match.startInOld,
                              w.startInNew, w.endInNew)
             after  == Window(endInOld(match), w.endInOld,
                              endInNew(match), w.endInNew)
         IN  (IF w.startInOld < match.startInOld
                  /\ w.startInNew < match.startInNew
              THEN {<<w, before>>}
                       \cup recursiveCalls(oldWords, newWords,
                                           matchGranularity, before)
              ELSE {})
             \cup (IF endInOld(match) < w.endInOld
                       /\ endInNew(match) < w.endInNew
                   THEN {<<w, after>>}
                            \cup recursiveCalls(oldWords, newWords,
                                                matchGranularity, after)
                   ELSE {})

\* the recursive calls made, directly or not, by the body of
\* findMatchingBlocks on window w once findMatch has returned match: the
\* pairs <<window of the caller, window of the call>>
recursiveCallsAround(oldWords, newWords, matchGranularity, w, match) ==
    IF match = NULL THEN {}
    ELSE LET before == Window(w.startInOld, match.startInOld,
                              w.startInNew, match.startInNew)
             after  == Window(endInOld(match), w.endInOld,
                              endInNew(match), w.endInNew)
         IN  (IF w.startInOld < match.startInOld
                  /\ w.startInNew < match.startInNew
              THEN {<<w, before>>}
                       \cup recursiveCalls(oldWords, newWords,
                                           matchGranularity, before)
              ELSE {})
             \cup (IF endInOld(match) < w.endInOld
                       /\ endInNew(match) < w.endInNew
                   THEN {<<w, after>>}
                            \cup recursiveCalls(oldWords, newWords,
                                                matchGranularity, after)
                   ELSE {})

recursiveCalls(oldWords, newWords, matchGranularity, w) ==
    recursiveCallsAround(oldWords, newWords, matchGranularity, w,
                         findMatch(oldWords, newWords, matchGranularity, w))

matchingBlocks(oldWords, newWords, matchGranularity) ==
    findMatchingBlocks(oldWords, newWords, matchGranularity,
                       Window(0, Len(oldWords), 0, Len(newWords)))

\* words.slice(from, to).reduce(sumLength, 0)
lengthInChars(words, from, to) == Len(Join(Slice(words, from, to)))

\* whether the orphan test of removeOrphans keeps curr
keepsOrphan(oldWords, newWords, prev, curr, next) ==
    LET oldDistanceInChars ==
            lengthInChars(oldWords, endInOld(prev), next.startInOld)
        newDistanceInChars ==
            lengthInChars(newWords, endInNew(prev), next.startInNew)
        currMatchLengthInChars ==
            lengthInChars(newWords, curr.startInNew, endInNew(curr))
    IN  currMatchLengthInChars * orphanMatchThreshold.den
            > Max2(oldDistanceInChars, newDistanceInChars)
                  * orphanMatchThreshold.num

\* removeOrphansFrom with the adjacency test on prev only
RECURSIVE removeOrphansFromPrevOnly(_, _, _, _, _, _)
removeOrphansFromPrevOnly(oldWords, newWords, matches, k, prev, curr) ==
    IF k > Len(matches) THEN <<curr>>
    ELSE LET next == matches[k]
         IN  IF /\ endInOld(prev) = curr.startInOld
                /\ endInNew(prev) = curr.startInNew
             THEN <<curr>> \o removeOrphansFromPrevOnly(oldWords, newWords,
                                  matches, k + 1, prev, next)
             ELSE (IF keepsOrphan(oldWords, newWords, prev, curr, next)
                   THEN <<curr>> ELSE <<>>)
                  \o removeOrphansFromPrevOnly(oldWords, newWords, matches,
                                               k + 1, curr, next)

\* removeOrphansFrom without the yield of curr after the loop
RECURSIVE removeOrphansFromWithoutLast(_, _, _, _, _, _)
removeOrphansFromWithoutLast(oldWords, newWords, matches, k, prev, curr) ==
    IF k > Len(matches) THEN <<>>
    ELSE LET next == matches[k]
         IN  IF \/ /\ endInOld(prev) = curr.startInOld
                   /\ endInNew(prev) = curr.startInNew
                \/ /\ endInOld(curr) = next.startInOld
                   /\ endInNew(curr) = next.startInNew
             THEN <<curr>> \o removeOrphansFromWithoutLast(oldWords, newWords,
                                  matches, k + 1, prev, next)
             ELSE (IF keepsOrphan(oldWords, newWords, prev, curr, next)
                   THEN <<curr>> ELSE <<>>)
                  \o removeOrphansFromWithoutLast(oldWords, newWords, matches,
                                                  k + 1, curr, next)

\* the loop of removeOrphans from matches[k] on, with prev and curr set
RECURSIVE removeOrphansFrom(_, _, _, _, _, _)
removeOrphansFrom(oldWords, newWords, matches, k, prev, curr) ==
    IF k > Len(matches) THEN <<curr>>
    ELSE LET next == matches[k]
         IN  IF \/ /\ endInOld(prev) = curr.startInOld
                   /\ endInNew(prev) = curr.startInNew
                \/ /\ endInOld(curr) = next.startInOld
                   /\ endInNew(curr) = next.startInNew
             THEN <<curr>> \o removeOrphansFrom(oldWords, newWords, matches,
                                                k + 1, prev, next)
             ELSE (IF keepsOrphan(oldWords, newWords, prev, curr, next)
                   THEN <<curr>> ELSE <<>>)
                  \o removeOrphansFrom(oldWords, newWords, matches, k + 1,
                                       curr, next)

\* matches is never empty: operations() appends the sentinel before the call
removeOrphans(oldWords, newWords, matches) ==
    removeOrphansFrom(oldWords, newWords, matches, 2, Match(0, 0, 0),
                      matches[1])

Operation(action, startInOld, endInOldP, startInNew, endInNewP) ==
    [action |-> action, startInOld |-> startInOld, endInOld |-> endInOldP,
     startInNew |-> startInNew, endInNew |-> endInNewP]

\* gapAction with insert and delete taken for each other
gapActionSwapped(positionInOld, positionInNew, match) ==
    LET matchStartsAtCurrentPositionInOld == positionInOld = match.startInOld
        matchStartsAtCurrentPositionInNew == positionInNew = match.startInNew
    IN  IF ~matchStartsAtCurrentPositionInOld
            /\ ~matchStartsAtCurrentPositionInNew
        THEN "replace"
        ELSE IF matchStartsAtCurrentPositionInOld
                /\ ~matchStartsAtCurrentPositionInNew
        THEN "delete"
        ELSE IF ~matchStartsAtCurrentPositionInOld
        THEN "insert"
        ELSE "none"

\* the action of the gap between the cursors and the start of a match
gapAction(positionInOld, positionInNew, match) ==
    LET matchStartsAtCurrentPositionInOld == positionInOld = match.startInOld
        matchStartsAtCurrentPositionInNew == positionInNew = match.startInNew
    IN  IF ~matchStartsAtCurrentPositionInOld
            /\ ~matchStartsAtCurrentPositionInNew
        THEN "replace"
        ELSE IF matchStartsAtCurrentPositionInOld
                /\ ~matchStartsAtCurrentPositionInNew
        THEN "insert"
        ELSE IF ~matchStartsAtCurrentPositionInOld
        THEN "delete"
        ELSE "none"

\* operationsStep with the equal Operation starting at the cursors
operationsStepEqualFromCursor(st, match) ==
    LET action == gapAction(st.positionInOld, st.positionInNew, match)
        gap == IF action # "none"
               THEN <<Operation(action, st.positionInOld, match.startInOld,
                                st.positionInNew, match.startInNew)>>
               ELSE <<>>
        equal == IF match.size # 0
                 THEN <<Operation("equal", st.positionInOld, endInOld(match),
                                  st.positionInNew, endInNew(match))>>
                 ELSE <<>>
    IN  [positionInOld |-> endInOld(match),
         positionInNew |-> endInNew(match),
         operations |-> st.operations \o gap \o equal]

\* operationsStep with the cursors left where the match starts
operationsStepCursorAtStart(st, match) ==
    LET action == gapAction(st.positionInOld, st.positionInNew, match)
        gap == IF action # "none"
               THEN <<Operation(action, st.positionInOld, match.startInOld,
                                st.positionInNew, match.startInNew)>>
               ELSE <<>>
        equal == IF match.size # 0
                 THEN <<Operation("equal", match.startInOld, endInOld(match),
                                  match.startInNew, endInNew(match))>>
                 ELSE <<>>
    IN  [positionInOld |-> match.startInOld,
         positionInNew |-> match.startInNew,
         operations |-> st.operations \o gap \o equal]

\* operationsStep with an Operation pushed for every gap, of action none too
operationsStepOfEveryAction(st, match) ==
    LET action == gapAction(st.positionInOld, st.positionInNew, match)
        gap == <<Operation(action, st.positionInOld, match.startInOld,
                           st.positionInNew, match.startInNew)>>
        equal == IF match.size # 0
                 THEN <<Operation("equal", match.startInOld, endInOld(match),
                                  match.startInNew, endInNew(match))>>
                 ELSE <<>>
    IN  [positionInOld |-> endInOld(match),
         positionInNew |-> endInNew(match),
         operations |-> st.operations \o gap \o equal]

\* one iteration of the loop of operations() over the retained matches
operationsStep(st, match) ==
    LET action == gapAction(st.positionInOld, st.positionInNew, match)
        gap == IF action # "none"
               THEN <<Operation(action, st.positionInOld, match.startInOld,
                                st.positionInNew, match.startInNew)>>
               ELSE <<>>
        equal == IF match.size # 0
                 THEN <<Operation("equal", match.startInOld, endInOld(match),
                                  match.startInNew, endInNew(match))>>
                 ELSE <<>>
    IN  [positionInOld |-> endInOld(match),
         positionInNew |-> endInNew(match),
         operations |-> st.operations \o gap \o equal]

RECURSIVE operationsLoop(_, _)
operationsLoop(matches, n) ==
    IF n = 0
    THEN [positionInOld |-> 0, positionInNew |-> 0, operations |-> <<>>]
    ELSE operationsStep(operationsLoop(matches, n - 1), matches[n])

\* the retained matches of operations(): matchingBlocks, the sentinel, and
\* the orphan removal
matchesWithoutOrphans(oldWords, newWords, matchGranularity) ==
    removeOrphans(oldWords, newWords,
                  Append(matchingBlocks(oldWords, newWords, matchGranularity),
                         Match(Len(oldWords), Len(newWords), 0)))

\* the operations the loop of operations() has collected at its end
operationsOf(matches) == operationsLoop(matches, Len(matches)).operations

operations(oldWords, newWords, matchGranularity) ==
    operationsOf(matchesWithoutOrphans(oldWords, newWords, matchGranularity))

(***************************************************************************)
(* HtmlDiff: rendering                                                     *)
(***************************************************************************)

DEL == <<"d", "e", "l">>

INS == <<"i", "n", "s">>

DIFFDEL == <<"d", "i", "f", "f", "d", "e", "l">>

DIFFINS == <<"d", "i", "f", "f", "i", "n", "s">>

DIFFMOD == <<"d", "i", "f", "f", "m", "o", "d">>

\* the tokens of content, from 0-based position start on, up to the first one
\* on which the predicate is false; the predicate is isTag (tags = TRUE) or
\* its negation (tags = FALSE)
RECURSIVE consecutiveWhere(_, _, _)
consecutiveWhere(start, content, tags) ==
    IF start >= Len(content) \/ isTag(content[start + 1]) # tags THEN <<>>
    ELSE <<content[start + 1]>> \o consecutiveWhere(start + 1, content, tags)

\* insertTag wrapping the whole span from position on in one element
insertTagAroundAll(tag, cssClass, content, position) ==
    IF position >= Len(content) THEN <<>>
    ELSE wrapText(Join(Slice(content, position, Len(content))), tag, cssClass)

\* the loop of insertTag from position on
RECURSIVE insertTagFrom(_, _, _, _)
insertTagFrom(tag, cssClass, content, position) ==
    IF position >= Len(content) THEN <<>>
    ELSE LET nonTags   == consecutiveWhere(position, content, FALSE)
             position2 == position + Len(nonTags)
             wrapped   == IF Len(nonTags) # 0
                          THEN wrapText(Join(nonTags), tag, cssClass)
                          ELSE <<>>
         IN  IF position2 >= Len(content) THEN wrapped
             ELSE LET tags == consecutiveWhere(position2, content, TRUE)
                  IN  wrapped \o Join(tags)
                          \o insertTagFrom(tag, cssClass, content,
                                           position2 + Len(tags))

\* the rendering insertTag pushes to this.content
insertTag(tag, cssClass, content) == insertTagFrom(tag, cssClass, content, 0)

\* processInsertOperation with pos > opp.startInNew
processInsertOperationAfterStart(newWords, opp, cssClass) ==
    insertTag(INS, cssClass, Slice(newWords, opp.startInNew + 1, opp.endInNew))

processInsertOperation(newWords, opp, cssClass) ==
    insertTag(INS, cssClass, Slice(newWords, opp.startInNew, opp.endInNew))

\* processDeleteOperation with the tag of an insertion
processDeleteOperationAsIns(oldWords, opp, cssClass) ==
    insertTag(INS, cssClass, Slice(oldWords, opp.startInOld, opp.endInOld))

processDeleteOperation(oldWords, opp, cssClass) ==
    insertTag(DEL, cssClass, Slice(oldWords, opp.startInOld, opp.endInOld))

processEqualOperation(newWords, opp) ==
    Join(Slice(newWords, opp.startInNew, opp.endInNew))

\* a disabled analyzer: this.blockAnalyzer is undefined
NoAnalyzer == [enabled |-> FALSE, equivalentTypes |-> <<>>]

\* shouldUseBlockReplacement without the comparison of the block types
shouldUseBlockReplacementOnAnyBlock(analyzer, oldBlocks, newBlocks, opp) ==
    /\ analyzer.enabled
    /\ \/ \E k \in 1..Len(oldBlocks) :
              /\ oldBlocks[k].startIndex < opp.endInOld
              /\ oldBlocks[k].endIndex >= opp.startInOld
       \/ \E k \in 1..Len(newBlocks) :
              /\ newBlocks[k].startIndex < opp.endInNew
              /\ newBlocks[k].endIndex >= opp.startInNew

shouldUseBlockReplacement(analyzer, oldBlocks, newBlocks, opp) ==
    IF ~analyzer.enabled THEN FALSE
    ELSE LET oldBlocksInRange ==
                 SelectSeq(oldBlocks,
                           LAMBDA b : b.startIndex < opp.endInOld
                                      /\ b.endIndex >= opp.startInOld)
             newBlocksInRange ==
                 SelectSeq(newBlocks,
                           LAMBDA b : b.startIndex < opp.endInNew
                                      /\ b.endIndex >= opp.startInNew)
         IN  IF Len(oldBlocksInRange) = 0 /\ Len(newBlocksInRange) = 0
             THEN FALSE
             ELSE IF Len(oldBlocksInRange) = 0 \/ Len(newBlocksInRange) = 0
             THEN TRUE
             ELSE IF Len(oldBlocksInRange) # Len(newBlocksInRange)
             THEN TRUE
             ELSE \E i \in 1..Len(oldBlocksInRange) :
                      ~isSameBlockType(
                           equivalentTypesMap(analyzer.equivalentTypes),
                           oldBlocksInRange[i], newBlocksInRange[i])

\* processReplaceOperation with the classes of a block replacement whenever
\* there is an analyzer
processReplaceOperationOfAnalyzer(analyzer, oldBlocks, newBlocks, oldWords, newWords, opp) ==
    IF analyzer.enabled
    THEN <<insertTag(DEL, DIFFDEL,
                     Slice(oldWords, opp.startInOld, opp.endInOld)),
           insertTag(INS, DIFFINS,
                     Slice(newWords, opp.startInNew, opp.endInNew))>>
    ELSE <<insertTag(DEL, DIFFMOD,
                     Slice(oldWords, opp.startInOld, opp.endInOld)),
           insertTag(INS, DIFFMOD,
                     Slice(newWords, opp.startInNew, opp.endInNew))>>

\* the two renderings processReplaceOperation pushes to this.content
processReplaceOperation(analyzer, oldBlocks, newBlocks, oldWords, newWords, opp) ==
    IF analyzer.enabled
        /\ shouldUseBlockReplacement(analyzer, oldBlocks, newBlocks, opp)
    THEN <<processDeleteOperation(oldWords, opp, DIFFDEL),
           processInsertOperation(newWords, opp, DIFFINS)>>
    ELSE <<processDeleteOperation(oldWords, opp, DIFFMOD),
           processInsertOperation(newWords, opp, DIFFMOD)>>

\* the strings performOperation pushes to this.content
performOperation(analyzer, oldBlocks, newBlocks, oldWords, newWords, opp) ==
    CASE opp.action = "equal" -> <<processEqualOperation(newWords, opp)>>
      [] opp.action = "delete" ->
             <<processDeleteOperation(oldWords, opp, DIFFDEL)>>
      [] opp.action = "insert" ->
             <<processInsertOperation(newWords, opp, DIFFINS)>>
      [] opp.action = "none" -> <<>>
      [] opp.action = "replace" ->
             processReplaceOperation(analyzer, oldBlocks, newBlocks,
                                     oldWords, newWords, opp)

(***************************************************************************)
(* HtmlDiff: splitInputsIntoWords and the restoration of original words    *)
(***************************************************************************)

\* words.map((el) => el[0])
comparisonWords(pairs) == [k \in 1..Len(pairs) |-> pairs[k][1]]

\* the Map of 0-based index to original word: el[1] && map.set(idx, el[1])
originalWords(pairs) ==
    [k \in {i \in 0..(Len(pairs) - 1) : pairs[i + 1][2] # NULL}
        |-> pairs[k + 1][2]]

\* originalWords.forEach((value, key) => { words[key] = value })
setOriginalWords(words, originals) ==
    [k \in 1..Len(words) |->
        IF (k - 1) \in DOMAIN originals THEN originals[k - 1] ELSE words[k]]

\* Math.min(MatchGranularityMaximum, oldWords.length, newWords.length)
granularity(oldWords, newWords) ==
    Min2(MatchGranularityMaximum, Min2(Len(oldWords), Len(newWords)))

RECURSIVE performAll(_, _, _, _, _, _)
performAll(analyzer, oldBlocks, newBlocks, oldWords, newWords, ops) ==
    IF ops = <<>> THEN <<>>
    ELSE Join(performOperation(analyzer, oldBlocks, newBlocks, oldWords,
                               newWords, Head(ops)))
             \o performAll(analyzer, oldBlocks, newBlocks, oldWords, newWords,
                           Tail(ops))

\* new HtmlDiff(oldText, newText).diff(): a whole diff with no block analyzer
plainDiff(oldText, newText) ==
    IF oldText = newText THEN newText
    ELSE LET oldPairs == convertHtmlToListOfWords(oldText)
             newPairs == convertHtmlToListOfWords(newText)
             oldWords == comparisonWords(oldPairs)
             newWords == comparisonWords(newPairs)
             ops      == operations(oldWords, newWords,
                                    granularity(oldWords, newWords))
         IN  performAll(NoAnalyzer, <<>>, <<>>,
                        setOriginalWords(oldWords, originalWords(oldPairs)),
                        setOriginalWords(newWords, originalWords(newPairs)),
                        ops)

\* the object MatchOptions after new HtmlDiff(oldText, newText).diff()
optionsAfterPlainDiff(options, oldText, newText) ==
    IF oldText = newText THEN options
    ELSE optionsAfterOperations(options,
             comparisonWords(convertHtmlToListOfWords(oldText)),
             comparisonWords(convertHtmlToListOfWords(newText)),
             granularity(comparisonWords(convertHtmlToListOfWords(oldText)),
                         comparisonWords(convertHtmlToListOfWords(newText))))

\* the object MatchOptions after diffWordRanges(oldWords, newWords)
optionsAfterDiffWordRanges(options, oldWords, newWords) ==
    IF Len(oldWords) = 0 /\ Len(newWords) = 0 THEN options
    ELSE optionsAfterPlainDiff(options, Join(oldWords), Join(newWords))

diffWordRanges(oldWords, newWords) ==
    IF Len(oldWords) = 0 /\ Len(newWords) = 0 THEN <<>>
    ELSE LET oldText == Join(oldWords)
             newText == Join(newWords)
         IN  IF oldText = newText THEN newText
             ELSE plainDiff(oldText, newText)

(***************************************************************************)
(* HtmlDiff: block-aware alignment                                         *)
(***************************************************************************)

Abs(n) == IF n < 0 THEN -n ELSE n

\* IEEE 754 double precision: the significand of a positive double has 53
\* binary digits, the first of them 1; here the 52 after it are held as
\* Limbs numbers of LimbDigits binary digits each, the first the highest,
\* and a double is [limbs, scale]: its value is the significand, as an
\* integer, over 2^scale
LimbDigits == 13

Limbs == 4

LimbBase == 2 ^ LimbDigits

\* the number of doublings of above, 0 < above, that reach below, and what
\* they reach
RECURSIVE doublingsToReach(_, _)
doublingsToReach(above, below) ==
    IF above >= below THEN 0 ELSE 1 + doublingsToReach(2 * above, below)

RECURSIVE doubledToReach(_, _)
doubledToReach(above, below) ==
    IF above >= below THEN above ELSE doubledToReach(2 * above, below)

\* the remainder of the division by below after k limbs of the quotient,
\* from the remainder first
RECURSIVE remainderAt(_, _, _)
remainderAt(first, below, k) ==
    IF k = 0 THEN first
    ELSE (remainderAt(first, below, k - 1) * LimbBase) % below

\* the double after the one with these limbs and this scale
nextDouble(limbs, scale) ==
    [limbs |-> [k \in 1..Limbs |->
                   IF \A j \in (k + 1)..Limbs : limbs[j] = LimbBase - 1
                   THEN (limbs[k] + 1) % LimbBase
                   ELSE limbs[k]],
     scale |-> IF \A j \in 1..Limbs : limbs[j] = LimbBase - 1
               THEN scale - 1 ELSE scale]

\* round to nearest, ties to even: what is cut off after the limbs is
\* cutOff / whole of a unit of the last place
roundedToNearestEven(limbs, scale, cutOff, whole) ==
    IF \/ 2 * cutOff > whole
       \/ 2 * cutOff = whole /\ limbs[Limbs] % 2 = 1
    THEN nextDouble(limbs, scale)
    ELSE [limbs |-> limbs, scale |-> scale]

\* the double nearest to above / below, for integers 0 < above <= below
doubleQuotient(above, below) ==
    roundedToNearestEven(
        [k \in 1..Limbs |->
            (remainderAt(doubledToReach(above, below) - below, below, k - 1)
                 * LimbBase) \div below],
        doublingsToReach(above, below) + Limbs * LimbDigits,
        remainderAt(doubledToReach(above, below) - below, below, Limbs),
        below)

\* the carry out of the limb k when the significand is multiplied by factor
RECURSIVE carryOut(_, _, _)
carryOut(limbs, factor, k) ==
    IF k > Limbs THEN 0
    ELSE (limbs[k] * factor + carryOut(limbs, factor, k + 1)) \div LimbBase

\* the number of binary digits of n
RECURSIVE binaryDigits(_)
binaryDigits(n) == IF n = 0 THEN 0 ELSE 1 + binaryDigits(n \div 2)

\* the limbs of the product, the one before the first included, moved cut
\* digits down
movedDown(product, cut) ==
    [k \in 1..Limbs |->
        (product[k] % (2 ^ cut)) * (2 ^ (LimbDigits - cut))
            + product[k + 1] \div (2 ^ cut)]

\* the double nearest to x * factor, for a double x and an integer factor,
\* 0 < factor < LimbBase / 2
doubleProduct(x, factor) ==
    LET product == [k \in 1..(Limbs + 1) |->
                       IF k = 1 THEN factor + carryOut(x.limbs, factor, 1)
                       ELSE (x.limbs[k - 1] * factor
                                 + carryOut(x.limbs, factor, k)) % LimbBase]
        cut     == binaryDigits(product[1]) - 1
    IN  roundedToNearestEven(movedDown(product, cut), x.scale - cut,
                             product[Limbs + 1] % (2 ^ cut), 2 ^ cut)

\* Math.round of a double x, 0 < x < 2^(2 * LimbDigits): the nearest
\* integer, the greater of two equally near
mathRound(x) ==
    LET head  == (LimbBase + x.limbs[1]) * LimbBase + x.limbs[2]
        below == x.scale - (Limbs - 2) * LimbDigits - 1
    IN  IF below > 2 * LimbDigits + 1 THEN 0
        ELSE (head \div (2 ^ below) + 1) \div 2

\* Math.round((num / den) * 100) in double arithmetic, for integers
\* 0 <= num <= den, 0 < den
roundPercent(num, den) ==
    IF num = 0 THEN 0
    ELSE mathRound(doubleProduct(doubleQuotient(num, den), 100))

\* getBlockInnerWords(words, block).join("").length
innerLength(words, block) == Len(Join(getBlockInnerWords(words, block)))

\* scoreForMatch returning the difference instead of the similarity
scoreForMatchAsDifference(analyzer, oldWords, newWords, oldBlocks, newBlocks, oldIndex, newIndex) ==
    IF oldIndex >= Len(oldBlocks) \/ newIndex >= Len(newBlocks) THEN 0
    ELSE IF ~isSameBlockType(equivalentTypesMap(analyzer.equivalentTypes),
                             oldBlocks[oldIndex + 1], newBlocks[newIndex + 1])
    THEN 0
    ELSE IF Max2(innerLength(oldWords, oldBlocks[oldIndex + 1]),
                 innerLength(newWords, newBlocks[newIndex + 1])) = 0
    THEN 100
    ELSE roundPercent(Abs(innerLength(oldWords, oldBlocks[oldIndex + 1])
                              - innerLength(newWords, newBlocks[newIndex + 1])),
                      Max2(innerLength(oldWords, oldBlocks[oldIndex + 1]),
                           innerLength(newWords, newBlocks[newIndex + 1])))

\* scoreForMatch on 0-based block indices
scoreForMatch(analyzer, oldWords, newWords, oldBlocks, newBlocks, oldIndex, newIndex) ==
    IF oldIndex >= Len(oldBlocks) \/ newIndex >= Len(newBlocks) THEN 0
    ELSE LET oldBlock  == oldBlocks[oldIndex + 1]
             newBlock  == newBlocks[newIndex + 1]
             oldLength == innerLength(oldWords, oldBlock)
             newLength == innerLength(newWords, newBlock)
             maxLength == Max2(oldLength, newLength)
         IN  IF ~isSameBlockType(equivalentTypesMap(analyzer.equivalentTypes),
                                 oldBlock, newBlock)
             THEN 0
             ELSE IF maxLength = 0 THEN 100
             ELSE 100 - roundPercent(Abs(oldLength - newLength), maxLength)

\* the table of scores, indexed by 0-based block indices
scoreTable(analyzer, oldWords, newWords, oldBlocks, newBlocks) ==
    [i \in 0..Len(oldBlocks), j \in 0..Len(newBlocks) |->
        scoreForMatch(analyzer, oldWords, newWords, oldBlocks, newBlocks, i, j)]

\* dp[i][j] of matchBlocksByTypeSimilarity
RECURSIVE dpAt(_, _, _, _, _)
dpAt(score, oldCount, newCount, i, j) ==
    IF i >= oldCount \/ j >= newCount THEN 0
    ELSE LET matchScore == score[i, j]
             skipOld    == dpAt(score, oldCount, newCount, i + 1, j)
             skipNew    == dpAt(score, oldCount, newCount, i, j + 1)
             takeMatch  == IF matchScore > 0
                           THEN dpAt(score, oldCount, newCount, i + 1, j + 1)
                                    + matchScore
                           ELSE 0
         IN  Max2(Max2(skipOld, skipNew), takeMatch)

\* the backtracking loop of matchBlocksByTypeSimilarity from (i, j)
RECURSIVE backtrack(_, _, _, _, _)
backtrack(score, oldCount, newCount, i, j) ==
    IF ~(i < oldCount /\ j < newCount) THEN <<>>
    ELSE IF score[i, j] > 0
            /\ dpAt(score, oldCount, newCount, i, j)
                   = dpAt(score, oldCount, newCount, i + 1, j + 1) + score[i, j]
    THEN <<[oldIndex |-> i, newIndex |-> j]>>
             \o backtrack(score, oldCount, newCount, i + 1, j + 1)
    ELSE IF dpAt(score, oldCount, newCount, i + 1, j)
                >= dpAt(score, oldCount, newCount, i, j + 1)
    THEN backtrack(score, oldCount, newCount, i + 1, j)
    ELSE backtrack(score, oldCount, newCount, i, j + 1)

matchBlocksByTypeSimilarity(analyzer, oldWords, newWords, oldBlocks, newBlocks) ==
    IF ~analyzer.enabled THEN <<>>
    ELSE backtrack(scoreTable(analyzer, oldWords, newWords, oldBlocks, newBlocks),
                   Len(oldBlocks), Len(newBlocks), 0, 0)

\* gapChange without the comparison of the types
gapChangeOfEveryGap(analyzer, oldBlocks, newBlocks, current, next) ==
    IF \/ Len(Slice(oldBlocks, current.oldIndex + 1, next.oldIndex)) = 0
       \/ Len(Slice(newBlocks, current.newIndex + 1, next.newIndex)) = 0
    THEN <<>>
    ELSE <<[oldStart |-> oldBlocks[current.oldIndex + 2].startIndex,
            oldEnd   |-> oldBlocks[next.oldIndex].endIndex,
            newStart |-> newBlocks[current.newIndex + 2].startIndex,
            newEnd   |-> newBlocks[next.newIndex].endIndex]>>

\* gapChange with the old range of a change ended at the last old block
gapChangeToLastOldBlock(analyzer, oldBlocks, newBlocks, current, next) ==
    LET oldRange == Slice(oldBlocks, current.oldIndex + 1, next.oldIndex)
        newRange == Slice(newBlocks, current.newIndex + 1, next.newIndex)
        typesMatch ==
            /\ Len(oldRange) = Len(newRange)
            /\ \A j \in 1..Len(oldRange) :
                   isSameBlockType(equivalentTypesMap(analyzer.equivalentTypes),
                                   oldRange[j], newRange[j])
    IN  IF Len(oldRange) = 0 \/ Len(newRange) = 0 THEN <<>>
        ELSE IF typesMatch THEN <<>>
        ELSE <<[oldStart |-> oldRange[1].startIndex,
                oldEnd   |-> oldBlocks[Len(oldBlocks)].endIndex,
                newStart |-> newRange[1].startIndex,
                newEnd   |-> newRange[Len(newRange)].endIndex]>>

\* the change range of the gap between two consecutive anchors, if any
gapChange(analyzer, oldBlocks, newBlocks, current, next) ==
    LET oldRange == Slice(oldBlocks, current.oldIndex + 1, next.oldIndex)
        newRange == Slice(newBlocks, current.newIndex + 1, next.newIndex)
        typesMatch ==
            /\ Len(oldRange) = Len(newRange)
            /\ \A j \in 1..Len(oldRange) :
                   isSameBlockType(equivalentTypesMap(analyzer.equivalentTypes),
                                   oldRange[j], newRange[j])
    IN  IF Len(oldRange) = 0 \/ Len(newRange) = 0 THEN <<>>
        ELSE IF typesMatch THEN <<>>
        ELSE <<[oldStart |-> oldRange[1].startIndex,
                oldEnd   |-> oldRange[Len(oldRange)].endIndex,
                newStart |-> newRange[1].startIndex,
                newEnd   |-> newRange[Len(newRange)].endIndex]>>

RECURSIVE gapChangesFrom(_, _, _, _, _)
gapChangesFrom(analyzer, oldBlocks, newBlocks, anchoredMatches, i) ==
    IF i >= Len(anchoredMatches) THEN <<>>
    ELSE gapChange(analyzer, oldBlocks, newBlocks,
                   anchoredMatches[i], anchoredMatches[i + 1])
             \o gapChangesFrom(analyzer, oldBlocks, newBlocks,
                               anchoredMatches, i + 1)

detectBlockTypeChanges(analyzer, oldWords, newWords, oldBlocks, newBlocks) ==
    IF ~analyzer.enabled THEN <<>>
    ELSE LET matches == matchBlocksByTypeSimilarity(analyzer, oldWords, newWords,
                                                    oldBlocks, newBlocks)
             anchoredMatches ==
                 <<[oldIndex |-> -1, newIndex |-> -1]>> \o matches
                     \o <<[oldIndex |-> Len(oldBlocks),
                           newIndex |-> Len(newBlocks)]>>
         IN  gapChangesFrom(analyzer, oldBlocks, newBlocks, anchoredMatches, 1)

\* diffWordRanges: new HtmlDiff(oldText, newText) is constructed without
\* options, so the instance has no blockAnalyzer
subDiffAnalyzer == NoAnalyzer

\* the condition under which diff() returns diffWithBlockTypeChanges()
takesBlockPath(analyzer, oldWords, newWords) ==
    /\ analyzer.enabled
    /\ Len(detectBlockTypeChanges(analyzer, oldWords, newWords,
                                  findBlocks(oldWords),
                                  findBlocks(newWords))) > 0

\* what one iteration of the loop of diffWithBlockTypeChanges pushes to result
\* for the content before the change
beforeChange(oldWords, newWords, oldPos, newPos, change) ==
    IF oldPos < change.oldStart \/ newPos < change.newStart
    THEN diffWordRanges(Slice(oldWords, oldPos, change.oldStart),
                        Slice(newWords, newPos, change.newStart))
    ELSE <<>>

\* the old range rendered as the old side of an in-place replacement
delBlockAsReplacement(oldWords, change) ==
    insertTag(DEL, DIFFMOD, Slice(oldWords, change.oldStart, change.oldEnd + 1))

\* `<del class="diffdel">${oldBlockContent}</del>`
delBlock(oldWords, change) ==
    wrapText(Join(Slice(oldWords, change.oldStart, change.oldEnd + 1)),
             DEL, DIFFDEL)

\* `<ins class="diffins">${newBlockContent}</ins>`
insBlock(newWords, change) ==
    wrapText(Join(Slice(newWords, change.newStart, change.newEnd + 1)),
             INS, DIFFINS)

\* afterChanges diffing the whole of both arrays
afterChangesFromStart(oldWords, newWords, oldPos, newPos) ==
    IF oldPos < Len(oldWords) \/ newPos < Len(newWords)
    THEN diffWordRanges(oldWords, newWords)
    ELSE <<>>

\* what diffWithBlockTypeChanges pushes for the content after the last change
afterChanges(oldWords, newWords, oldPos, newPos) ==
    IF oldPos < Len(oldWords) \/ newPos < Len(newWords)
    THEN diffWordRanges(Slice(oldWords, oldPos, Len(oldWords)),
                        Slice(newWords, newPos, Len(newWords)))
    ELSE <<>>

(***************************************************************************)
(* Inputs                                                                  *)
(***************************************************************************)

\* all sequences of at most n elements of S
SeqsUpTo(S, n) == UNION {[1..k -> S] : k \in 0..n}

MaxWordLexemes == 4

WordLexemes == {<<".">>, <<"a">>}

\* texts without markup
WordTexts == {Join(s) : s \in SeqsUpTo(WordLexemes, MaxWordLexemes)}

MaxSegments == 2

Segments ==
    {<<"<", "p", ">", "a", "<", "/", "p", ">">>,
     <<"<", "p", ">", ".", "<", "/", "p", ">">>,
     <<"<", "p", " ", "k", ">", "a", ".", "<", "/", "p", ">">>,
     <<"<", "p", ">", "<", "/", "p", ">">>,
     <<"<", "u", "l", ">", "a", "<", "/", "u", "l", ">">>,
     <<"<", "o", "l", ">", "a", "<", "/", "o", "l", ">">>}

\* texts that are sequences of block-level elements
BlockTexts == {Join(s) : s \in SeqsUpTo(Segments, MaxSegments)}

\* the blockDiff option values: absent, enabled, enabled with ul and ol
\* equivalent
BlockDiffOptions ==
    {[enabled |-> FALSE, equivalentTypes |-> <<>>],
     [enabled |-> TRUE, equivalentTypes |-> <<>>],
     [enabled |-> TRUE, equivalentTypes |-> <<(<<(<<"u", "l">>), (<<"o", "l">>)>>)>>]}

MaxChangeSegments == 3

ChangeSegments ==
    {<<"<", "p", ">", "a", "<", "/", "p", ">">>,
     <<"<", "u", "l", ">", "a", "<", "/", "u", "l", ">">>,
     <<"<", "o", "l", ">", "a", "<", "/", "o", "l", ">">>,
     <<"a", " ">>}

\* texts of up to three top-level elements and words between them
ChangeTexts == {Join(t) : t \in SeqsUpTo(ChangeSegments, MaxChangeSegments)}

MaxBlockTokens == 5

\* the tokens of the arrays findBlocks is run on by itself
BlockTokens ==
    {<<"<", "p", ">">>, <<"<", "/", "p", ">">>, <<"<", "d", "i", "v", ">">>,
     <<"<", "/", "d", "i", "v", ">">>, <<"a">>}

BlockTokenArrays == SeqsUpTo(BlockTokens, MaxBlockTokens)

MaxGroups == 2

MaxBlockList == 3

\* the tag names of the blocks and groups the analyzer's methods are run on
AnalyzerTagNames == {<<"u", "l">>, <<"o", "l">>, <<"d", "l">>}

\* equivalentTypes groups: two different tag names
AnalyzerGroups ==
    {g \in AnalyzerTagNames \X AnalyzerTagNames : g[1] # g[2]}

AnalyzerEquivalentTypes == SeqsUpTo(AnalyzerGroups, MaxGroups)

AnalyzerBlocks ==
    {[tagName |-> t, startIndex |-> 0, endIndex |-> 1, depth |-> 0] :
        t \in AnalyzerTagNames}

AnalyzerBlockLists == SeqsUpTo(AnalyzerBlocks, MaxBlockList)

MaxOrphanLexemes == 4

OrphanLexemes == {<<".">>, <<",">>, <<"a">>}

\* the texts the orphan removal is run on
OrphanTexts == {Join(s) : s \in SeqsUpTo(OrphanLexemes, MaxOrphanLexemes)}

\* the values of this.orphanMatchThreshold the orphan removal is run with
OrphanMatchThresholds ==
    {DefaultOrphanMatchThreshold, [num |-> 3, den |-> 10],
     [num |-> 1, den |-> 1]}

MaxInnerLength == 40

\* one paragraph of each inner length
SimilarityTexts ==
    {<<"<", "p", ">">> \o [k \in 1..n |-> "a"] \o <<"<", "/", "p", ">">> :
        n \in 0..MaxInnerLength}

(***************************************************************************)
(* The diff call as a state machine                                        *)
(***************************************************************************)

VARIABLES
    argOld, argNew,         \* the arguments of the diff call
    blockDiff,              \* options.blockDiff (the analyzer's configuration)
    pc,                     \* the position of the call
    oldText, newText,       \* this.oldText, this.newText
    oldWords, newWords,     \* this.oldWords, this.newWords
    originalWordsInOld, originalWordsInNew,
    oldBlocks, newBlocks,   \* this.oldBlocks, this.newBlocks
    blockTypeChanges,       \* the ranges detectBlockTypeChanges returned
    changeIndex,            \* the iteration of diffWithBlockTypeChanges
    oldPos, newPos,         \* its cursors
    result,                 \* its result array
    matchGranularity,       \* this.matchGranularity
    ops,                    \* the Operation list of diff()
    opIndex,                \* the iteration of the rendering loop
    content,                \* this.content
    returned,               \* the value diff() returned
    called,                 \* the methods called so far
    fbWords,                \* findBlocks(words): its argument
    fbIndex,                \* the index i of its loop
    fbState,                \* its blocks, stack and currentDepth
    fbBlocks,               \* the array it returned
    fbPc,                   \* the position of the findBlocks call
    anEquivalentTypes,      \* options.equivalentTypes of a BlockAnalyzer
    anCall,                 \* the method called on it and its arguments
    anLocals,               \* the locals of the method's loop
    anReturned,             \* the value the method returned
    anPc                    \* the position of the method call

vars ==
    <<argOld, argNew, blockDiff, pc, oldText, newText, oldWords, newWords,
      originalWordsInOld, originalWordsInNew, oldBlocks, newBlocks,
      blockTypeChanges, changeIndex, oldPos, newPos, result,
      matchGranularity, ops, opIndex, content, returned, called,
      fbWords, fbIndex, fbState, fbBlocks, fbPc,
      anEquivalentTypes, anCall, anLocals, anReturned, anPc,
      orphanMatchThreshold, MatchOptions>>

anVars == <<anEquivalentTypes, anCall, anLocals, anReturned, anPc>>

fbVars == <<fbWords, fbIndex, fbState, fbBlocks, fbPc>>

diffVars ==
    <<argOld, argNew, blockDiff, orphanMatchThreshold, pc, oldText, newText, oldWords, newWords,
      originalWordsInOld, originalWordsInNew, oldBlocks, newBlocks,
      blockTypeChanges, changeIndex, oldPos, newPos, result,
      matchGranularity, ops, opIndex, content, returned, called,
      MatchOptions>>

argVars == <<argOld, argNew, blockDiff, orphanMatchThreshold>>

textVars == <<oldText, newText>>

wordVars == <<oldWords, newWords, originalWordsInOld, originalWordsInNew>>

blockVars == <<oldBlocks, newBlocks, blockTypeChanges>>

changeVars == <<changeIndex, oldPos, newPos, result>>

opVars == <<matchGranularity, ops, opIndex, content>>

\* the constructor of HtmlDiff
Constructed(old, new, options) ==
    /\ argOld = old
    /\ argNew = new
    /\ blockDiff = options
    /\ pc = "diff"
    /\ oldText = old
    /\ newText = new
    /\ oldWords = <<>>
    /\ newWords = <<>>
    /\ originalWordsInOld = <<>>
    /\ originalWordsInNew = <<>>
    /\ oldBlocks = <<>>
    /\ newBlocks = <<>>
    /\ blockTypeChanges = <<>>
    /\ changeIndex = 1
    /\ oldPos = 0
    /\ newPos = 0
    /\ result = <<>>
    /\ matchGranularity = 0
    /\ ops = <<>>
    /\ opIndex = 1
    /\ content = <<>>
    /\ returned = <<>>
    /\ called = {}

\* a call of findBlocks on words, before its loop
FindBlocksCalled(words) ==
    /\ fbWords = words
    /\ fbIndex = 0
    /\ fbState = findBlocksInit
    /\ fbBlocks = <<>>
    /\ fbPc = "loop"

\* a BlockAnalyzer constructed with these groups, and a method called on it
AnalyzerCalled(groups, call) ==
    /\ anEquivalentTypes = groups
    /\ anCall = call
    /\ anLocals = matchBlocksByPositionInit
    /\ anReturned = NULL
    /\ anPc = "called"

NoCall == [method |-> "none"]

Init ==
    /\ orphanMatchThreshold = DefaultOrphanMatchThreshold
    /\ MatchOptions = DefaultMatchOptions
    /\ AnalyzerCalled(<<>>, NoCall)
    /\ \/ \E old \in WordTexts, new \in WordTexts :
              Constructed(old, new, NoAnalyzer)
       \/ \E old \in BlockTexts, new \in BlockTexts,
               options \in BlockDiffOptions :
              Constructed(old, new, options)
    /\ FindBlocksCalled(<<>>)

\* diff() without the fast path: identical inputs are tokenized and the
\* tokens joined again
DiffIdenticalTokenized ==
    /\ pc = "diff"
    /\ oldText = newText
    /\ oldWords' = comparisonWords(convertHtmlToListOfWords(oldText))
    /\ newWords' = comparisonWords(convertHtmlToListOfWords(newText))
    /\ returned' = Join(newWords')
    /\ called' = called \cup {"splitInputsIntoWords"}
    /\ pc' = "done"
    /\ UNCHANGED <<MatchOptions, anVars, fbVars, argVars, textVars, originalWordsInOld,
                   originalWordsInNew, blockVars, changeVars, opVars>>

\* diff(): the fast path of identical inputs
DiffIdentical ==
    /\ pc = "diff"
    /\ oldText = newText
    /\ returned' = newText
    /\ pc' = "done"
    /\ UNCHANGED <<MatchOptions, anVars, fbVars, argVars, textVars, wordVars, blockVars, changeVars, opVars,
                   called>>

\* splitInputsIntoWords()
SplitInputsIntoWords ==
    /\ pc = "diff"
    /\ oldText # newText
    /\ LET words    == convertHtmlToListOfWords(oldText)
           newPairs == convertHtmlToListOfWords(newText)
       IN  /\ originalWordsInOld' = originalWords(words)
           /\ oldWords' = comparisonWords(words)
           /\ originalWordsInNew' = originalWords(newPairs)
           /\ newWords' = comparisonWords(newPairs)
    /\ oldText' = <<>>
    /\ newText' = <<>>
    /\ called' = called \cup {"splitInputsIntoWords"}
    /\ pc' = IF blockDiff.enabled THEN "analyze" ELSE "operations"
    /\ UNCHANGED <<MatchOptions, anVars, fbVars, argVars, blockVars, changeVars, opVars, returned>>

\* diff(): findBlocks on both token arrays and detectBlockTypeChanges
AnalyzeBlocks ==
    /\ pc = "analyze"
    /\ oldBlocks' = findBlocks(oldWords)
    /\ newBlocks' = findBlocks(newWords)
    /\ blockTypeChanges' =
           detectBlockTypeChanges(blockDiff, oldWords, newWords,
                                  oldBlocks', newBlocks')
    /\ called' = called \cup {"findBlocks", "detectBlockTypeChanges"}
    /\ pc' = IF Len(blockTypeChanges') > 0 THEN "blockChanges" ELSE "operations"
    /\ UNCHANGED <<MatchOptions, anVars, fbVars, argVars, textVars, wordVars, changeVars, opVars, returned>>

\* diffWithBlockTypeChanges(): one iteration of the loop over the changes
ProcessBlockChange ==
    /\ pc = "blockChanges"
    /\ changeIndex <= Len(blockTypeChanges)
    /\ LET change == blockTypeChanges[changeIndex]
           beforeOldWords == Slice(oldWords, oldPos, change.oldStart)
           beforeNewWords == Slice(newWords, newPos, change.newStart)
           before ==
               IF (oldPos < change.oldStart \/ newPos < change.newStart)
                   /\ (Len(beforeOldWords) > 0 \/ Len(beforeNewWords) > 0)
               THEN <<beforeChange(oldWords, newWords, oldPos, newPos, change)>>
               ELSE <<>>
       IN  /\ result' = result \o before
                  \o <<delBlock(oldWords, change), insBlock(newWords, change)>>
           /\ MatchOptions' =
                  IF before = <<>> THEN MatchOptions
                  ELSE optionsAfterDiffWordRanges(MatchOptions, beforeOldWords,
                                                  beforeNewWords)
           /\ oldPos' = change.oldEnd + 1
           /\ newPos' = change.newEnd + 1
    /\ changeIndex' = changeIndex + 1
    /\ called' = called \cup {"diffWithBlockTypeChanges"}
    /\ UNCHANGED <<anVars, fbVars, argVars, pc, textVars, wordVars, blockVars, opVars, returned>>

\* diffWithBlockTypeChanges(): the content after the last change, and return
FinishBlockChanges ==
    /\ pc = "blockChanges"
    /\ changeIndex > Len(blockTypeChanges)
    /\ LET after ==
               IF oldPos < Len(oldWords) \/ newPos < Len(newWords)
               THEN <<afterChanges(oldWords, newWords, oldPos, newPos)>>
               ELSE <<>>
       IN  /\ result' = result \o after
           /\ returned' = Join(result')
           /\ MatchOptions' =
                  IF after = <<>> THEN MatchOptions
                  ELSE optionsAfterDiffWordRanges(MatchOptions,
                           Slice(oldWords, oldPos, Len(oldWords)),
                           Slice(newWords, newPos, Len(newWords)))
    /\ pc' = "done"
    /\ UNCHANGED <<anVars, fbVars, argVars, textVars, wordVars, blockVars, changeIndex, oldPos,
                   newPos, opVars, called>>

\* diff(): the granularity and operations()
ComputeOperations ==
    /\ pc = "operations"
    /\ matchGranularity' = granularity(oldWords, newWords)
    /\ ops' = operations(oldWords, newWords, matchGranularity')
    /\ MatchOptions' = optionsAfterOperations(MatchOptions, oldWords, newWords,
                                              matchGranularity')
    /\ called' = called \cup {"operations"}
    /\ pc' = "restore"
    /\ UNCHANGED <<anVars, fbVars, argVars, textVars, wordVars, blockVars, changeVars, opIndex,
                   content, returned>>

\* diff(): "set original words"
SetOriginalWords ==
    /\ pc = "restore"
    /\ oldWords' = setOriginalWords(oldWords, originalWordsInOld)
    /\ newWords' = setOriginalWords(newWords, originalWordsInNew)
    /\ pc' = "perform"
    /\ UNCHANGED <<MatchOptions, anVars, fbVars, argVars, textVars, originalWordsInOld, originalWordsInNew,
                   blockVars, changeVars, opVars, returned, called>>

\* diff(): one iteration of the loop over the operations
PerformOperation ==
    /\ pc = "perform"
    /\ opIndex <= Len(ops)
    /\ content' = content \o performOperation(blockDiff, oldBlocks, newBlocks,
                                              oldWords, newWords, ops[opIndex])
    /\ opIndex' = opIndex + 1
    /\ UNCHANGED <<MatchOptions, anVars, fbVars, argVars, pc, textVars, wordVars, blockVars, changeVars,
                   matchGranularity, ops, returned, called>>

\* diff(): return this.content.join("")
ReturnContent ==
    /\ pc = "perform"
    /\ opIndex > Len(ops)
    /\ returned' = Join(content)
    /\ pc' = "done"
    /\ UNCHANGED <<MatchOptions, anVars, fbVars, argVars, textVars, wordVars, blockVars, changeVars, opVars,
                   called>>

Next ==
    \/ DiffIdentical
    \/ SplitInputsIntoWords
    \/ AnalyzeBlocks
    \/ ProcessBlockChange
    \/ FinishBlockChanges
    \/ ComputeOperations
    \/ SetOriginalWords
    \/ PerformOperation
    \/ ReturnContent

Spec == Init /\ [][Next]_vars

\* diff() is synchronous and runs on one thread, so a call that has not
\* returned takes its next step. This is WF_vars(Next), that is
\* []<>~ENABLED <<Next>>_vars \/ []<><<Next>>_vars, with ENABLED <<Next>>_vars
\* written as ~(pc = "done"): every action has a guard on pc, none is enabled
\* at "done", and every other reachable state has a step
Scheduled == []<>(pc = "done") \/ []<><<Next>>_vars

SpecTerminating == Init /\ [][Next]_vars /\ Scheduled

(***************************************************************************)
(* diff() on the path of diffWithBlockTypeChanges, on texts with up to     *)
(* three top-level elements                                                *)
(***************************************************************************)

InitChanges ==
    /\ orphanMatchThreshold = DefaultOrphanMatchThreshold
    /\ MatchOptions = DefaultMatchOptions
    /\ AnalyzerCalled(<<>>, NoCall)
    /\ FindBlocksCalled(<<>>)
    /\ \E old \in ChangeTexts, new \in ChangeTexts :
           old # new
               /\ Constructed(old, new,
                              [enabled |-> TRUE, equivalentTypes |-> <<>>])

NextChanges ==
    \/ SplitInputsIntoWords
    \/ AnalyzeBlocks
    \/ ProcessBlockChange
    \/ FinishBlockChanges

SpecChanges == InitChanges /\ [][NextChanges]_vars

(***************************************************************************)
(* diff() of two paragraphs with block diffing on, up to the block         *)
(* analysis                                                                *)
(***************************************************************************)

InitSimilarity ==
    /\ orphanMatchThreshold = DefaultOrphanMatchThreshold
    /\ MatchOptions = DefaultMatchOptions
    /\ AnalyzerCalled(<<>>, NoCall)
    /\ FindBlocksCalled(<<>>)
    /\ \E old \in SimilarityTexts, new \in SimilarityTexts :
           old # new
               /\ Constructed(old, new,
                              [enabled |-> TRUE, equivalentTypes |-> <<>>])

NextSimilarity == SplitInputsIntoWords \/ AnalyzeBlocks

SpecSimilarity == InitSimilarity /\ [][NextSimilarity]_vars

(***************************************************************************)
(* BlockAnalyzer.findBlocks, one token at a time                           *)
(***************************************************************************)

InitBlocks ==
    /\ orphanMatchThreshold = DefaultOrphanMatchThreshold
    /\ MatchOptions = DefaultMatchOptions
    /\ AnalyzerCalled(<<>>, NoCall)
    /\ Constructed(<<>>, <<>>, NoAnalyzer)
    /\ \E words \in BlockTokenArrays : FindBlocksCalled(words)

\* one iteration of for (let i = 0; i < words.length; i++)
FindBlocksIteration ==
    /\ fbPc = "loop"
    /\ fbIndex < Len(fbWords)
    /\ fbState' = findBlocksStep(fbState, fbWords[fbIndex + 1], fbIndex)
    /\ fbIndex' = fbIndex + 1
    /\ UNCHANGED <<anVars, diffVars, fbWords, fbBlocks, fbPc>>

\* return blocks.sort(...)
FindBlocksReturn ==
    /\ fbPc = "loop"
    /\ fbIndex >= Len(fbWords)
    /\ fbBlocks' = sortByStartIndex(fbState.blocks)
    /\ fbPc' = "done"
    /\ UNCHANGED <<anVars, diffVars, fbWords, fbIndex, fbState>>

NextBlocks == FindBlocksIteration \/ FindBlocksReturn

SpecBlocks == InitBlocks /\ [][NextBlocks]_vars

(***************************************************************************)
(* operations() with this.orphanMatchThreshold set to other values         *)
(***************************************************************************)

InitOrphans ==
    /\ orphanMatchThreshold \in OrphanMatchThresholds
    /\ MatchOptions = DefaultMatchOptions
    /\ AnalyzerCalled(<<>>, NoCall)
    /\ FindBlocksCalled(<<>>)
    /\ \E old \in OrphanTexts, new \in OrphanTexts :
           old # new /\ Constructed(old, new, NoAnalyzer)

NextOrphans == SplitInputsIntoWords \/ ComputeOperations

SpecOrphans == InitOrphans /\ [][NextOrphans]_vars

(***************************************************************************)
(* BlockAnalyzer.isSameBlockType and BlockAnalyzer.matchBlocksByPosition   *)
(***************************************************************************)

InitAnalyzer ==
    /\ orphanMatchThreshold = DefaultOrphanMatchThreshold
    /\ MatchOptions = DefaultMatchOptions
    /\ Constructed(<<>>, <<>>, NoAnalyzer)
    /\ FindBlocksCalled(<<>>)
    /\ \E groups \in AnalyzerEquivalentTypes :
           \/ \E block1 \in AnalyzerBlocks \cup {NULL},
                 block2 \in AnalyzerBlocks \cup {NULL} :
                  AnalyzerCalled(groups,
                      [method |-> "isSameBlockType",
                       block1 |-> block1, block2 |-> block2])
           \/ /\ groups = <<>>
              /\ \E old \in AnalyzerBlockLists, new \in AnalyzerBlockLists :
                     AnalyzerCalled(groups,
                         [method |-> "matchBlocksByPosition",
                          oldBlocks |-> old, newBlocks |-> new])

\* isSameBlockType(block1, block2)
IsSameBlockTypeReturns ==
    /\ anPc = "called"
    /\ anCall.method = "isSameBlockType"
    /\ anReturned' = isSameBlockType(equivalentTypesMap(anEquivalentTypes),
                                     anCall.block1, anCall.block2)
    /\ anPc' = "done"
    /\ UNCHANGED <<diffVars, fbVars, anEquivalentTypes, anCall, anLocals>>

\* matchBlocksByPosition(oldBlocks, newBlocks): one iteration of its loop
MatchBlocksByPositionIteration ==
    /\ anPc = "called"
    /\ anCall.method = "matchBlocksByPosition"
    /\ matchBlocksByPositionGoesOn(anLocals, anCall.oldBlocks,
                                   anCall.newBlocks)
    /\ anLocals' = matchBlocksByPositionStep(anLocals, anCall.oldBlocks,
                                             anCall.newBlocks)
    /\ UNCHANGED <<diffVars, fbVars, anEquivalentTypes, anCall, anReturned,
                   anPc>>

\* return pairs
MatchBlocksByPositionReturn ==
    /\ anPc = "called"
    /\ anCall.method = "matchBlocksByPosition"
    /\ ~matchBlocksByPositionGoesOn(anLocals, anCall.oldBlocks,
                                    anCall.newBlocks)
    /\ anReturned' = anLocals.pairs
    /\ anPc' = "done"
    /\ UNCHANGED <<diffVars, fbVars, anEquivalentTypes, anCall, anLocals>>

NextAnalyzer ==
    \/ IsSameBlockTypeReturns
    \/ MatchBlocksByPositionIteration
    \/ MatchBlocksByPositionReturn

SpecAnalyzer == InitAnalyzer /\ [][NextAnalyzer]_vars

(***************************************************************************)
(* Properties                                                              *)
(***************************************************************************)

\* the diff call has returned
Done == pc = "done"

\* the call went through operations() and the rendering loop
OperationPath == "operations" \in called

\* the call went through diffWithBlockTypeChanges()
BlockChangePath == "diffWithBlockTypeChanges" \in called

\* C1: diff(x, x) returns x unchanged, for every options value, and no
\* tokenization or block analysis has been performed when it returns
C1_IdenticalInputsReturnedUntouched ==
    (Done /\ argOld = argNew)
        => /\ returned = argNew
           /\ called = {}
           /\ oldWords = <<>> /\ newWords = <<>>
           /\ oldBlocks = <<>> /\ newBlocks = <<>>

\* identical inputs with markup whose tokens differ from their comparison
\* form, diffed with an analyzer configured
C1_Witness ==
    /\ Done /\ argOld = argNew /\ blockDiff.enabled
    /\ \E k \in DOMAIN originalWords(convertHtmlToListOfWords(argNew)) : TRUE

\* the ranges <<from, to>> of a side of the operations
OldRanges(operationList) ==
    [k \in 1..Len(operationList) |->
        <<operationList[k].startInOld, operationList[k].endInOld>>]

NewRanges(operationList) ==
    [k \in 1..Len(operationList) |->
        <<operationList[k].startInNew, operationList[k].endInNew>>]

\* the ranges are in order, each starts where the one before ended, together
\* they run from 0 to n, and every index below n is in exactly one of them
Partitions(ranges, n) ==
    /\ \A k \in 1..Len(ranges) : ranges[k][1] <= ranges[k][2]
    /\ \A k \in 1..(Len(ranges) - 1) : ranges[k][2] = ranges[k + 1][1]
    /\ Len(ranges) > 0 => ranges[1][1] = 0 /\ ranges[Len(ranges)][2] = n
    /\ Len(ranges) = 0 => n = 0
    /\ \A i \in 0..(n - 1) :
           Cardinality({k \in 1..Len(ranges) :
                           ranges[k][1] <= i /\ i < ranges[k][2]}) = 1

\* C2: the old-side ranges of the Operation list of operations() partition
\* [0, len(oldWords)) and its new-side ranges partition [0, len(newWords)),
\* in order, with no gap and no overlap
C2_OperationsPartitionBothSides ==
    OperationPath
        => /\ Partitions(OldRanges(ops), Len(oldWords))
           /\ Partitions(NewRanges(ops), Len(newWords))

\* an edit script with a replacement, an insertion or deletion and an equal
\* run
C2_Witness ==
    /\ OperationPath
    /\ Len(ops) >= 3
    /\ \E k \in 1..Len(ops) : ops[k].action = "replace"
    /\ \E k \in 1..Len(ops) : ops[k].action \in {"insert", "delete"}
    /\ \E k \in 1..Len(ops) : ops[k].action = "equal"

\* the tokens of a tokenized text in their original form
rawWords(pairs) ==
    [k \in 1..Len(pairs) |->
        IF pairs[k][2] # NULL THEN pairs[k][2] ELSE pairs[k][1]]

\* the tags among the tokens
tagsAmong(words) == {w \in {words[k] : k \in 1..Len(words)} : isTag(w)}

\* the tag tokens of a text, as written in it
TagTokens(text) == tagsAmong(rawWords(convertHtmlToListOfWords(text)))

\* the tags the rendering itself adds
DiffWrappers ==
    {SubSeq(wrapText(<<>>, tag, cssClass), 1, Len(tag) + Len(cssClass) + 11) :
         tag \in {DEL, INS}, cssClass \in {DIFFDEL, DIFFINS, DIFFMOD}}
        \cup {<<"<", "/">> \o tag \o <<">">> : tag \in {DEL, INS}}

\* C3: when the inputs differ, every tag token written to the output is a
\* tag of an input in its original form (attributes preserved), on the
\* Operation-rendering path and on the block-type-change path alike
C3_TagsWrittenInOriginalForm ==
    (Done /\ argOld # argNew)
        => TagTokens(returned) \ DiffWrappers
               \subseteq TagTokens(argOld) \cup TagTokens(argNew)

\* the same, for the calls that rendered an Operation list
C3_OperationPathTagsInOriginalForm ==
    (Done /\ OperationPath)
        => TagTokens(returned) \ DiffWrappers
               \subseteq TagTokens(argOld) \cup TagTokens(argNew)

\* <tag class="cssClass">
OpenWrapper(tag, cssClass) ==
    <<"<">> \o tag \o <<" ", "c", "l", "a", "s", "s", "=", "\"">> \o cssClass
        \o <<"\"", ">">>

\* </tag>
CloseWrapper(tag) == <<"<", "/">> \o tag \o <<">">>

\* one del element of class diffdel around all old tokens of the range
WholeDel(change) ==
    OpenWrapper(DEL, DIFFDEL)
        \o Join(SubSeq(oldWords, change.oldStart + 1, change.oldEnd + 1))
        \o CloseWrapper(DEL)

\* one ins element of class diffins around all new tokens of the range
WholeIns(change) ==
    OpenWrapper(INS, DIFFINS)
        \o Join(SubSeq(newWords, change.newStart + 1, change.newEnd + 1))
        \o CloseWrapper(INS)

\* words is one top-level block from its first token to its last
SingleBlock(words, blocks) ==
    /\ Len(blocks) = 1
    /\ blocks[1].startIndex = 0
    /\ blocks[1].endIndex = Len(words) - 1

\* old and new are each a single top-level block
SingleBlocks ==
    SingleBlock(oldWords, oldBlocks) /\ SingleBlock(newWords, newBlocks)

\* the two single blocks have the same type, or equivalent types
SingleBlocksOfSameType ==
    /\ SingleBlocks
    /\ isSameBlockType(equivalentTypesMap(blockDiff.equivalentTypes),
                       oldBlocks[1], newBlocks[1])

\* C4: every block-type-change range the loop has processed is rendered as
\* one del element of class diffdel around all its old tokens, immediately
\* followed by one ins element of class diffins around all its new tokens,
\* and the output is these and the diffs of the ranges between them; when
\* old and new are single top-level blocks of different, non-equivalent
\* types the output is that del and that ins, with no diffmod
C4_BlockTypeChangeRenderedAsDelThenIns ==
    /\ \A k \in 1..Len(blockTypeChanges) :
           k < changeIndex
               => \E p \in 1..(Len(result) - 1) :
                      /\ result[p] = WholeDel(blockTypeChanges[k])
                      /\ result[p + 1] = WholeIns(blockTypeChanges[k])
    /\ (Done /\ BlockChangePath) => returned = Join(result)
    /\ (Done /\ blockDiff.enabled /\ SingleBlocks /\ ~SingleBlocksOfSameType)
           => /\ BlockChangePath
              /\ Contains(returned, DIFFDEL)
              /\ Contains(returned, DIFFINS)
              /\ ~Contains(returned, DIFFMOD)

\* a returned diff with a block-type change after an unchanged block
C4_Witness ==
    /\ Done /\ BlockChangePath
    /\ Len(blockTypeChanges) >= 1
    /\ Len(result) >= 3
    /\ blockTypeChanges[1].oldStart > 0

\* the diff call renders differing inputs with an analyzer configured
DoneWithAnalyzer == Done /\ blockDiff.enabled /\ argOld # argNew

NoOperation(action) == \A k \in 1..Len(ops) : ops[k].action # action

\* old and new have the same sequence of top-level block types
SameBlockTypeSequence ==
    /\ Len(oldBlocks) = Len(newBlocks)
    /\ \A k \in 1..Len(oldBlocks) :
           oldBlocks[k].tagName = newBlocks[k].tagName

\* C5 as stated: with blockDiff enabled and the same sequence of top-level
\* block types in old and new, the output has no diffdel and no diffins class
C5_SameBlockTypesGiveNoDiffdelNoDiffins ==
    (DoneWithAnalyzer /\ SameBlockTypeSequence)
        => ~Contains(returned, DIFFDEL) /\ ~Contains(returned, DIFFINS)

\* C5 as amended: with blockDiff enabled, when old and new are each one
\* top-level block spanning the whole input, of the same or an equivalent
\* type, no block-type-change range is detected and replaced ranges are
\* rendered diffmod: diffdel appears only when tokens are deleted without
\* replacement and diffins only when tokens are inserted without replacement
C5_SingleSameTypeBlocksReplaceAsDiffmod ==
    (DoneWithAnalyzer /\ SingleBlocksOfSameType)
        => /\ blockTypeChanges = <<>>
           /\ OperationPath
           /\ NoOperation("delete") => ~Contains(returned, DIFFDEL)
           /\ NoOperation("insert") => ~Contains(returned, DIFFINS)

\* a single block whose text was replaced by another text
C5_Witness ==
    /\ DoneWithAnalyzer /\ SingleBlocksOfSameType
    /\ \E k \in 1..Len(ops) :
           /\ ops[k].action = "replace"
           /\ ~isTag(oldWords[ops[k].startInOld + 1])
    /\ Contains(returned, DIFFMOD)

\* a is a subsequence of b, from positions i and j on
RECURSIVE subsequenceFrom(_, _, _, _)
subsequenceFrom(a, b, i, j) ==
    IF i > Len(a) THEN TRUE
    ELSE IF j > Len(b) THEN FALSE
    ELSE IF a[i] = b[j] THEN subsequenceFrom(a, b, i + 1, j + 1)
    ELSE subsequenceFrom(a, b, i, j + 1)

IsSubsequence(a, b) == subsequenceFrom(a, b, 1, 1)

\* the token slices of the blocks, tags in comparison form
blockContents(words, blocks) ==
    [k \in 1..Len(blocks) |->
        [j \in 1..(blocks[k].endIndex - blocks[k].startIndex + 1) |->
            stripAnyAttributes(words[blocks[k].startIndex + j])]]

\* the state after the block analysis of diff()
Analyzed == blockDiff.enabled /\ "detectBlockTypeChanges" \in called

\* new has every block of old, unchanged and in the same order, and more
BlocksInserted ==
    /\ Len(oldBlocks) >= 1
    /\ Len(newBlocks) > Len(oldBlocks)
    /\ IsSubsequence(blockContents(oldWords, oldBlocks),
                     blockContents(newWords, newBlocks))

\* C6: with blockDiff enabled, when new is old with top-level blocks
\* inserted and every old block kept unchanged and in order,
\* detectBlockTypeChanges reports no range and no whole-block del/ins
\* replacement is made
C6_InsertedBlocksReportNoTypeChange ==
    (Analyzed /\ BlocksInserted)
        => blockTypeChanges = <<>> /\ ~BlockChangePath

\* a block inserted in front of an unchanged block, diffed to the end
C6_Witness ==
    /\ Done /\ Analyzed /\ BlocksInserted
    /\ blockContents(oldWords, oldBlocks)[1]
           # blockContents(newWords, newBlocks)[1]

\* the blocks of new are those of old, token for token, except that blocks
\* were retagged within a group of equivalent types
Retagged ==
    /\ Analyzed
    /\ Len(oldWords) = Len(newWords)
    /\ Len(oldBlocks) = Len(newBlocks)
    /\ \A k \in 1..Len(oldBlocks) :
           /\ oldBlocks[k].startIndex = newBlocks[k].startIndex
           /\ oldBlocks[k].endIndex = newBlocks[k].endIndex
           /\ \/ oldBlocks[k].tagName = newBlocks[k].tagName
              \/ newBlocks[k].tagName
                     \in equivalentGroup(
                             equivalentTypesMap(blockDiff.equivalentTypes),
                             oldBlocks[k].tagName)
    /\ \E k \in 1..Len(oldBlocks) :
           oldBlocks[k].tagName # newBlocks[k].tagName
    /\ \A i \in 1..Len(oldWords) :
           \/ stripAnyAttributes(oldWords[i]) = stripAnyAttributes(newWords[i])
           \/ \E k \in 1..Len(oldBlocks) :
                  /\ i - 1 \in {oldBlocks[k].startIndex, oldBlocks[k].endIndex}
                  /\ oldBlocks[k].tagName # newBlocks[k].tagName

\* C7 as stated: with an equivalence group holding both tag names, retagging
\* a top-level block with its inner content unchanged gives no
\* block-type-change range and neither diffdel nor diffins in the output
C7_RetaggedBlockGivesNoDiffdelNoDiffins ==
    (Done /\ Retagged)
        => /\ blockTypeChanges = <<>>
           /\ ~Contains(returned, DIFFDEL)
           /\ ~Contains(returned, DIFFINS)

\* C7 as amended: such a retagging gives no block-type-change range, and
\* when old and new are that single block the output has neither diffdel
\* nor diffins
C7_RetaggedBlockIsNoTypeChange ==
    (Done /\ Retagged)
        => /\ blockTypeChanges = <<>>
           /\ ~BlockChangePath
           /\ SingleBlocks
                  => /\ ~Contains(returned, DIFFDEL)
                     /\ ~Contains(returned, DIFFINS)

\* a single ul retagged as ol, or the reverse, diffed to the end: its tags
\* are replaced and its inner content is equal
C7_Witness ==
    /\ Done /\ Retagged /\ SingleBlocks
    /\ \E k \in 1..Len(ops) : ops[k].action = "replace"
    /\ \E k \in 1..Len(ops) : ops[k].action = "equal"

\* the tokens of the arguments, in comparison form
OldTokens == comparisonWords(convertHtmlToListOfWords(argOld))

NewTokens == comparisonWords(convertHtmlToListOfWords(argNew))

\* the string occurs in the text at position i
OccursAt(text, string, i) ==
    /\ i + Len(string) - 1 <= Len(text)
    /\ SubSeq(text, i, i + Len(string) - 1) = string

\* text without the occurrences of the given strings, from position i on
RECURSIVE withoutFrom(_, _, _)
withoutFrom(text, strings, i) ==
    IF i > Len(text) THEN <<>>
    ELSE IF \E w \in strings : OccursAt(text, w, i)
    THEN withoutFrom(text, strings,
                     i + Len(CHOOSE w \in strings : OccursAt(text, w, i)))
    ELSE <<text[i]>> \o withoutFrom(text, strings, i + 1)

\* the output with the ins wrappers removed and their inner text kept
WithoutInsWrappers(text) ==
    withoutFrom(text, {OpenWrapper(INS, DIFFINS), OpenWrapper(INS, DIFFMOD),
                       CloseWrapper(INS)}, 1)

\* the first position from i on at which the string occurs, or 0
RECURSIVE positionOf(_, _, _)
positionOf(text, string, i) ==
    IF i + Len(string) - 1 > Len(text) THEN 0
    ELSE IF OccursAt(text, string, i) THEN i
    ELSE positionOf(text, string, i + 1)

\* text without the elements that open with one of the given tags, inner
\* text included, from position i on
RECURSIVE withoutElementsFrom(_, _, _, _)
withoutElementsFrom(text, opens, close, i) ==
    IF i > Len(text) THEN <<>>
    ELSE IF /\ \E w \in opens : OccursAt(text, w, i)
            /\ positionOf(text, close, i) # 0
    THEN withoutElementsFrom(text, opens, close,
                             positionOf(text, close, i) + Len(close))
    ELSE <<text[i]>> \o withoutElementsFrom(text, opens, close, i + 1)

\* the output with every del element removed together with its inner text
WithoutDelElements(text) ==
    withoutElementsFrom(text, {OpenWrapper(DEL, DIFFDEL),
                               OpenWrapper(DEL, DIFFMOD)},
                        CloseWrapper(DEL), 1)

\* the edit script has only equal operations and operations of this action
OnlyEqualAnd(action) ==
    /\ Done /\ OperationPath
    /\ \A k \in 1..Len(ops) : ops[k].action \in {"equal", action}
    /\ \E k \in 1..Len(ops) : ops[k].action = action

\* C8 as stated: when the old tokens are a subsequence of the new tokens the
\* output has no deletion markup, only diffins insertions, and removing the
\* ins wrappers while keeping their inner text reproduces oldHtml
C8_SubsequenceGivesOnlyInsertions ==
    (Done /\ argOld # argNew /\ IsSubsequence(OldTokens, NewTokens))
        => /\ ~Contains(returned, DIFFDEL)
           /\ ~Contains(returned, DIFFMOD)
           /\ WithoutInsWrappers(returned) = argOld

\* the first part of C8 alone, without an analyzer: old tokens that are a
\* subsequence of the new tokens give no deletion markup
SubsequenceGivesNoDeletionMarkup ==
    (Done /\ ~blockDiff.enabled /\ IsSubsequence(OldTokens, NewTokens))
        => ~Contains(returned, DIFFDEL) /\ ~Contains(returned, DIFFMOD)

\* C8 as amended: when the edit script has only equal and insert operations
\* the output has no del element, its only markup is diffins, and removing
\* the ins wrappers while keeping their inner text reproduces newHtml
C8_InsertOnlyScriptRendersNew ==
    OnlyEqualAnd("insert")
        => /\ ~Contains(returned, <<"<">> \o DEL)
           /\ ~Contains(returned, DIFFDEL)
           /\ ~Contains(returned, DIFFMOD)
           /\ WithoutInsWrappers(returned) = argNew

\* tokens inserted in the middle of a text that has tags with attributes
C8_Witness ==
    /\ OnlyEqualAnd("insert")
    /\ Contains(returned, DIFFINS)
    /\ DOMAIN originalWordsInNew # {}
    /\ ops[1].action = "equal"

\* no token of a deleted range is a tag
NoTagDeleted ==
    \A k \in 1..Len(ops) :
        ops[k].action = "delete"
            => \A i \in (ops[k].startInOld + 1)..ops[k].endInOld :
                   ~isTag(oldWords[i])

\* C9 as stated: when the new tokens are a subsequence of the old tokens the
\* output has only diffdel deletions, and removing every del element
\* together with its inner text reproduces newHtml
C9_SubsequenceGivesOnlyDeletions ==
    (Done /\ argOld # argNew /\ IsSubsequence(NewTokens, OldTokens))
        => /\ ~Contains(returned, DIFFINS)
           /\ ~Contains(returned, DIFFMOD)
           /\ WithoutDelElements(returned) = argNew

\* the first part of C9 alone, without an analyzer: new tokens that are a
\* subsequence of the old tokens give no insertion markup
SubsequenceGivesNoInsertionMarkup ==
    (Done /\ ~blockDiff.enabled /\ IsSubsequence(NewTokens, OldTokens))
        => ~Contains(returned, DIFFINS) /\ ~Contains(returned, DIFFMOD)

\* C9 as amended: when the edit script has only equal and delete operations
\* and no deleted token is a tag, the output has no ins element, its only
\* markup is diffdel, and removing every del element together with its inner
\* text reproduces newHtml
C9_DeleteOnlyScriptRendersNew ==
    (OnlyEqualAnd("delete") /\ NoTagDeleted)
        => /\ ~Contains(returned, <<"<">> \o INS)
           /\ ~Contains(returned, DIFFINS)
           /\ ~Contains(returned, DIFFMOD)
           /\ WithoutDelElements(returned) = argNew

\* text deleted from a block whose tags stay
C9_Witness ==
    /\ OnlyEqualAnd("delete") /\ NoTagDeleted
    /\ Contains(returned, DIFFDEL)
    /\ DOMAIN originalWordsInNew # {}

\* the findBlocks call has returned
BlocksReturned == fbPc = "done"

\* an opening block-level tag lies strictly inside a reported block
NestedInReported ==
    \E k \in 1..Len(fbBlocks) :
        \E i \in (fbBlocks[k].startIndex + 1)..(fbBlocks[k].endIndex - 1) :
            isOpeningTag(fbWords[i + 1]) /\ isBlockLevelTag(fbWords[i + 1])

\* C10: the blocks findBlocks returns are sorted by strictly increasing
\* startIndex and pairwise non-overlapping, each has depth 0 and
\* startIndex < endIndex, each runs from an opening tag to a closing tag of
\* its name, and no block-level element was open (the stack of findBlocks was
\* empty) when the loop reached the opening tag of a reported block
C10_BlocksTopLevelSortedDisjoint ==
    BlocksReturned
        => /\ \A k \in 1..Len(fbBlocks) :
                  /\ fbBlocks[k].depth = 0
                  /\ fbBlocks[k].startIndex < fbBlocks[k].endIndex
                  /\ fbBlocks[k].startIndex >= 0
                  /\ fbBlocks[k].endIndex < Len(fbWords)
                  /\ isOpeningTag(fbWords[fbBlocks[k].startIndex + 1])
                  /\ isClosingTag(fbWords[fbBlocks[k].endIndex + 1])
                  /\ getTagName(fbWords[fbBlocks[k].startIndex + 1])
                         = fbBlocks[k].tagName
                  /\ getTagName(fbWords[fbBlocks[k].endIndex + 1])
                         = fbBlocks[k].tagName
           /\ \A k \in 1..(Len(fbBlocks) - 1) :
                  fbBlocks[k].endIndex < fbBlocks[k + 1].startIndex
           /\ \A k \in 1..Len(fbBlocks) :
                  \A m \in 1..Len(fbBlocks) :
                      k # m
                          => \/ fbBlocks[k].endIndex < fbBlocks[m].startIndex
                             \/ fbBlocks[m].endIndex < fbBlocks[k].startIndex
           /\ \A k \in 1..Len(fbBlocks) :
                  findBlocksLoop(fbWords, fbBlocks[k].startIndex).stack = <<>>

\* a returned block with a block-level element nested in it
C10_Witness ==
    /\ BlocksReturned
    /\ Len(fbBlocks) >= 1
    /\ NestedInReported

\* isSameBlockType has returned
SameBlockTypeReturned == anPc = "done" /\ anCall.method = "isSameBlockType"

\* some configured group holds both tag names
InOneGroup(groups, tag1, tag2) ==
    \E k \in 1..Len(groups) :
        /\ \E m \in 1..Len(groups[k]) : groups[k][m] = tag1
        /\ \E m \in 1..Len(groups[k]) : groups[k][m] = tag2

\* both blocks are non-null and have the same tag name or tag names of one
\* configured group
SameTypeAsConfigured(groups, block1, block2) ==
    /\ block1 # NULL
    /\ block2 # NULL
    /\ \/ block1.tagName = block2.tagName
       \/ InOneGroup(groups, block1.tagName, block2.tagName)

\* C11: isSameBlockType(b1, b2) is true exactly when both blocks are non-null
\* and their tag names are identical or belong to one configured group; it
\* is false when an argument is null, and it answers the same for (b2, b1),
\* whatever the groups are
C11_SameBlockTypeIsSameNameOrOneGroup ==
    SameBlockTypeReturned
        => /\ anReturned = SameTypeAsConfigured(anEquivalentTypes,
                                                anCall.block1, anCall.block2)
           /\ (anCall.block1 = NULL \/ anCall.block2 = NULL)
                  => anReturned = FALSE
           /\ anReturned = isSameBlockType(
                                equivalentTypesMap(anEquivalentTypes),
                                anCall.block2, anCall.block1)

\* no tag name is in two groups
GroupsDisjoint(groups) ==
    \A k \in 1..Len(groups) :
        \A m \in 1..Len(groups) :
            k # m => \A x \in 1..Len(groups[k]) :
                         \A y \in 1..Len(groups[m]) :
                             groups[k][x] # groups[m][y]

\* C11 for groups that share no tag name
SameBlockTypeOfDisjointGroups ==
    (SameBlockTypeReturned /\ GroupsDisjoint(anEquivalentTypes))
        => /\ anReturned = SameTypeAsConfigured(anEquivalentTypes,
                                                anCall.block1, anCall.block2)
           /\ anReturned = isSameBlockType(
                                equivalentTypesMap(anEquivalentTypes),
                                anCall.block2, anCall.block1)

\* matchBlocksByPosition has returned
ByPositionReturned ==
    anPc = "done" /\ anCall.method = "matchBlocksByPosition"

\* the element i (from 1) of the list, or null past its end
ElementOrNull(blocks, i) == IF i <= Len(blocks) THEN blocks[i] ELSE NULL

\* C12: matchBlocksByPosition returns max(len(oldBlocks), len(newBlocks))
\* pairs; pair i holds oldBlocks[i] and newBlocks[i], null on the side whose
\* list is exhausted, and no pair has null on both sides
C12_PairsByPosition ==
    ByPositionReturned
        => /\ Len(anReturned)
                  = Max2(Len(anCall.oldBlocks), Len(anCall.newBlocks))
           /\ \A i \in 1..Len(anReturned) :
                  /\ anReturned[i].oldBlock
                         = ElementOrNull(anCall.oldBlocks, i)
                  /\ anReturned[i].newBlock
                         = ElementOrNull(anCall.newBlocks, i)
                  /\ ~(anReturned[i].oldBlock = NULL
                          /\ anReturned[i].newBlock = NULL)

\* lists of different lengths, neither empty: pairs of two blocks, then
\* pairs with null
C12_Witness ==
    /\ ByPositionReturned
    /\ Len(anCall.oldBlocks) >= 1
    /\ Len(anCall.newBlocks) > Len(anCall.oldBlocks)
    /\ anReturned[Len(anReturned)].oldBlock = NULL
    /\ anReturned[1].oldBlock # NULL

\* the equal Operations of the edit script
EqualOperations == {k \in 1..Len(ops) : ops[k].action = "equal"}

\* C13: every equal Operation has old and new ranges of the same non-zero
\* length, and at every offset of the range the old token and the new token
\* are the same in comparison form
C13_EqualOperationsHoldEqualTokens ==
    OperationPath
        => \A k \in EqualOperations :
               /\ ops[k].endInOld - ops[k].startInOld
                      = ops[k].endInNew - ops[k].startInNew
               /\ ops[k].endInOld - ops[k].startInOld > 0
               /\ ops[k].startInOld >= 0 /\ ops[k].endInOld <= Len(oldWords)
               /\ ops[k].startInNew >= 0 /\ ops[k].endInNew <= Len(newWords)
               /\ \A d \in 0..(ops[k].endInOld - ops[k].startInOld - 1) :
                      stripAnyAttributes(oldWords[ops[k].startInOld + d + 1])
                          = stripAnyAttributes(
                                newWords[ops[k].startInNew + d + 1])

\* an equal Operation of several tokens at different positions of old and
\* new, after a gap
C13_Witness ==
    /\ OperationPath
    /\ \E k \in EqualOperations :
           /\ k > 1
           /\ ops[k].endInOld - ops[k].startInOld >= 2
           /\ ops[k].startInOld # ops[k].startInNew

\* operations() has returned and the words are still in comparison form
OperationsReturned == pc = "restore"

\* the class of the gap between the cursors and the start of the match
ClassOfGap(positionInOld, positionInNew, match) ==
    CASE positionInOld = match.startInOld /\ positionInNew = match.startInNew
             -> "none"
      [] positionInOld = match.startInOld /\ positionInNew # match.startInNew
             -> "insert"
      [] positionInOld # match.startInOld /\ positionInNew = match.startInNew
             -> "delete"
      [] OTHER -> "replace"

\* the Operations of the matches from matches[k] on, with the cursors at
\* positionInOld and positionInNew: for each match the Operation of its gap,
\* unless the class is none, then its equal Operation, unless its size is 0,
\* and the cursors at its end for the next match
RECURSIVE GapThenEqual(_, _, _, _)
GapThenEqual(matches, k, positionInOld, positionInNew) ==
    IF k > Len(matches) THEN <<>>
    ELSE (IF ClassOfGap(positionInOld, positionInNew, matches[k]) = "none"
          THEN <<>>
          ELSE <<[action |-> ClassOfGap(positionInOld, positionInNew,
                                        matches[k]),
                  startInOld |-> positionInOld,
                  endInOld |-> matches[k].startInOld,
                  startInNew |-> positionInNew,
                  endInNew |-> matches[k].startInNew]>>)
         \o (IF matches[k].size = 0
             THEN <<>>
             ELSE <<[action |-> "equal",
                     startInOld |-> matches[k].startInOld,
                     endInOld |-> matches[k].startInOld + matches[k].size,
                     startInNew |-> matches[k].startInNew,
                     endInNew |-> matches[k].startInNew + matches[k].size]>>)
         \o GapThenEqual(matches, k + 1,
                         matches[k].startInOld + matches[k].size,
                         matches[k].startInNew + matches[k].size)

\* C14: operations() emits, for each retained Match in order, the Operation
\* of the gap from the cursors to the start of the match (none: nothing,
\* insert: only the old cursor is at the start, delete: only the new cursor
\* is, replace: neither is) and then the equal Operation of the match, and
\* moves both cursors to the end of the match
C14_GapsClassifiedBeforeEachMatch ==
    OperationsReturned
        => ops = GapThenEqual(matchesWithoutOrphans(oldWords, newWords,
                                                    matchGranularity),
                              1, 0, 0)

\* an edit script that starts with a match at the cursors, has a
\* replacement, and ends with an insertion or a deletion
C14_Witness ==
    /\ OperationsReturned
    /\ ops[1].action = "equal"
    /\ \E k \in 1..Len(ops) : ops[k].action = "replace"
    /\ ops[Len(ops)].action \in {"insert", "delete"}

\* the zero-size Match at the end of both arrays
Sentinel == [startInOld |-> Len(oldWords), startInNew |-> Len(newWords),
             size |-> 0]

\* the retained matches end with the sentinel, which is their only match of
\* size 0, and the edit script made of them has an equal Operation for
\* every other retained match and none for the sentinel; when the match
\* before the sentinel, or the start if there is none, leaves tokens
\* unmatched, the last Operation is an insert, delete or replace that runs
\* from there to the end of both arrays
SentinelFlushes(retained) ==
    /\ Len(retained) >= 1
    /\ retained[Len(retained)] = Sentinel
    /\ \A k \in 1..(Len(retained) - 1) : retained[k].size > 0
    /\ Cardinality(EqualOperations) = Len(retained) - 1
    /\ \A k \in EqualOperations : ops[k].endInOld > ops[k].startInOld
    /\ LET lastInOld == IF Len(retained) = 1 THEN 0
                        ELSE retained[Len(retained) - 1].startInOld
                                 + retained[Len(retained) - 1].size
           lastInNew == IF Len(retained) = 1 THEN 0
                        ELSE retained[Len(retained) - 1].startInNew
                                 + retained[Len(retained) - 1].size
       IN  IF lastInOld = Len(oldWords) /\ lastInNew = Len(newWords)
           THEN ops = <<>> \/ ops[Len(ops)].action = "equal"
           ELSE /\ ops # <<>>
                /\ ops[Len(ops)].action \in {"insert", "delete", "replace"}
                /\ ops[Len(ops)].startInOld = lastInOld
                /\ ops[Len(ops)].startInNew = lastInNew
                /\ ops[Len(ops)].endInOld = Len(oldWords)
                /\ ops[Len(ops)].endInNew = Len(newWords)

\* C15: the zero-size sentinel Match at (len(old), len(new)) is the last
\* match after the orphan removal, gives no equal Operation, and makes the
\* unmatched trailing tokens the range of a last insert, delete or replace
\* Operation
C15_SentinelIsLastAndFlushes ==
    OperationsReturned
        => SentinelFlushes(matchesWithoutOrphans(oldWords, newWords,
                                                 matchGranularity))

\* a match followed by unmatched tokens on both sides
C15_Witness ==
    /\ OperationsReturned
    /\ Len(ops) >= 2
    /\ ops[Len(ops) - 1].action = "equal"
    /\ ops[Len(ops)].action = "replace"
    /\ ops[Len(ops)].endInOld = Len(oldWords)

\* the matches operations() hands to removeOrphans
RawMatches ==
    Append(matchingBlocks(oldWords, newWords, matchGranularity), Sentinel)

RetainedMatches ==
    matchesWithoutOrphans(oldWords, newWords, matchGranularity)

\* match b starts where match a ends, in old and in new
Adjacent(a, b) ==
    /\ a.startInOld + a.size = b.startInOld
    /\ a.startInNew + a.size = b.startInNew

IsRetained(retained, match) ==
    \E k \in 1..Len(retained) : retained[k] = match

\* every match of raw that is adjacent to the match before it or to the
\* match after it is among the retained
AdjacentRetained(raw, retained) ==
    \A k \in 1..Len(raw) :
        (\/ k > 1 /\ Adjacent(raw[k - 1], raw[k])
         \/ k < Len(raw) /\ Adjacent(raw[k], raw[k + 1]))
            => IsRetained(retained, raw[k])

\* C16: whatever orphanMatchThreshold is, removeOrphans retains every Match
\* that is adjacent, with no gap in old and none in new, to the match before
\* it or to the match after it in the sequence
C16_AdjacentMatchesRetained ==
    OperationsReturned => AdjacentRetained(RawMatches, RetainedMatches)

\* a threshold other than 0, a match dropped and a match other than the
\* sentinel that is adjacent to the next one
C16_Witness ==
    /\ OperationsReturned
    /\ orphanMatchThreshold.num # 0
    /\ Len(RetainedMatches) < Len(RawMatches)
    /\ \E k \in 1..(Len(RawMatches) - 1) :
           /\ Adjacent(RawMatches[k], RawMatches[k + 1])
           /\ ~(RawMatches[k].startInOld = 0 /\ RawMatches[k].startInNew = 0)

\* the end of the match before raw[k], the start of both arrays for the
\* first match
EndBefore(raw, k) ==
    IF k = 1 THEN [old |-> 0, new |-> 0]
    ELSE [old |-> raw[k - 1].startInOld + raw[k - 1].size,
          new |-> raw[k - 1].startInNew + raw[k - 1].size]

\* raw[k] is adjacent neither to the match before it (the start of both
\* arrays for the first match) nor to the match after it
Sandwiched(raw, k) ==
    /\ k < Len(raw)
    /\ ~(EndBefore(raw, k).old = raw[k].startInOld
          /\ EndBefore(raw, k).new = raw[k].startInNew)
    /\ ~Adjacent(raw[k], raw[k + 1])

\* the total character length of the tokens between raw[k] and the match
\* before it, the greater of old and new
GapBefore(raw, k) ==
    Max2(lengthInChars(oldWords, EndBefore(raw, k).old, raw[k].startInOld),
         lengthInChars(newWords, EndBefore(raw, k).new, raw[k].startInNew))

\* the same between raw[k] and the match after it
GapAfter(raw, k) ==
    Max2(lengthInChars(oldWords, raw[k].startInOld + raw[k].size,
                       raw[k + 1].startInOld),
         lengthInChars(newWords, raw[k].startInNew + raw[k].size,
                       raw[k + 1].startInNew))

MatchedLength(match) ==
    lengthInChars(newWords, match.startInNew, match.startInNew + match.size)

\* every sandwiched match is retained exactly when its matched length
\* exceeds max(gapBefore, gapAfter) * orphanMatchThreshold
DroppedByGaps(raw, retained) ==
    \A k \in 1..Len(raw) :
        Sandwiched(raw, k)
            => (IsRetained(retained, raw[k])
                  <=> MatchedLength(raw[k]) * orphanMatchThreshold.den
                          > Max2(GapBefore(raw, k), GapAfter(raw, k))
                                * orphanMatchThreshold.num)

DroppedByDistances(raw, retained) ==
    \A k \in 1..Len(raw) :
        Sandwiched(raw, k)
            => (IsRetained(retained, raw[k])
                  <=> MatchedLength(raw[k]) * orphanMatchThreshold.den
                          > Max2(lengthInChars(oldWords,
                                     EndBefore(raw, k).old,
                                     raw[k + 1].startInOld),
                                 lengthInChars(newWords,
                                     EndBefore(raw, k).new,
                                     raw[k + 1].startInNew))
                                * orphanMatchThreshold.num)

\* the test of removeOrphans, taken from the match before each match
SandwichedMatchDroppedByDistances ==
    OperationsReturned => DroppedByDistances(RawMatches, RetainedMatches)

\* the matches are inside both arrays, of size above 0, and each ends at or
\* before the start of the next, in old and in new
OrderedInside(matches) ==
    /\ \A k \in 1..Len(matches) :
           /\ matches[k].size > 0
           /\ matches[k].startInOld >= 0
           /\ matches[k].startInOld + matches[k].size <= Len(oldWords)
           /\ matches[k].startInNew >= 0
           /\ matches[k].startInNew + matches[k].size <= Len(newWords)
    /\ \A k \in 1..(Len(matches) - 1) :
           /\ matches[k].startInOld < matches[k + 1].startInOld
           /\ matches[k].startInNew < matches[k + 1].startInNew
           /\ matches[k].startInOld + matches[k].size
                  <= matches[k + 1].startInOld
           /\ matches[k].startInNew + matches[k].size
                  <= matches[k + 1].startInNew

\* the matches other than found are those of the window before found and of
\* the window after it: every other match ends at or before the start of
\* found on both sides, or starts at or after its end on both sides
AroundFound(matches, found) ==
    found # NULL
        => \A k \in 1..Len(matches) :
               \/ matches[k] = found
               \/ /\ matches[k].startInOld + matches[k].size
                         <= found.startInOld
                  /\ matches[k].startInNew + matches[k].size
                         <= found.startInNew
               \/ /\ matches[k].startInOld >= found.startInOld + found.size
                  /\ matches[k].startInNew >= found.startInNew + found.size

\* C18: the Matches of matchingBlocks() are in strictly increasing order of
\* startInOld and of startInNew, do not overlap, lie inside both arrays, and
\* those found by the recursion lie in the window before or in the window
\* after the match found first
C18_MatchesOrderedAndDisjoint ==
    OperationsReturned
        => /\ OrderedInside(matchingBlocks(oldWords, newWords,
                                           matchGranularity))
           /\ AroundFound(matchingBlocks(oldWords, newWords, matchGranularity),
                          findMatch(oldWords, newWords, matchGranularity,
                                    Window(0, Len(oldWords),
                                           0, Len(newWords))))

\* the match found first has a match before it and a match after it
FoundInTheMiddle(matches, found) ==
    /\ Len(matches) >= 3
    /\ \E k \in 2..(Len(matches) - 1) : matches[k] = found

C18_Witness ==
    /\ OperationsReturned
    /\ FoundInTheMiddle(matchingBlocks(oldWords, newWords, matchGranularity),
                        findMatch(oldWords, newWords, matchGranularity,
                                  Window(0, Len(oldWords), 0, Len(newWords))))

\* the whole of both arrays
WholeWindow == Window(0, Len(oldWords), 0, Len(newWords))

\* the granularities up to matchGranularity at which the finder finds a
\* match in the window
Yielding(w) ==
    {g \in 1..matchGranularity :
        finderFindMatch(oldWords, newWords, w, g) # NULL}

\* found is the match of the greatest granularity of yielding, and null
\* when there is none
OfCoarsest(w, yielding, found) ==
    IF yielding = {} THEN found = NULL
    ELSE found = finderFindMatch(oldWords, newWords, w,
                     CHOOSE g \in yielding : \A h \in yielding : h <= g)

\* C19: diff() sets the granularity to min(4, len(old), len(new)); findMatch
\* returns the match of the first granularity, counting down from it to 1,
\* at which the finder finds one, and null only when it finds none at any;
\* when an array is empty the granularity is 0, none is tried and there is
\* no Match
C19_CoarsestGranularityFirst ==
    OperationsReturned
        => /\ matchGranularity
                  = Min2(4, Min2(Len(oldWords), Len(newWords)))
           /\ OfCoarsest(WholeWindow, Yielding(WholeWindow),
                         findMatch(oldWords, newWords, matchGranularity,
                                   WholeWindow))
           /\ (oldWords = <<>> \/ newWords = <<>>)
                  => /\ matchGranularity = 0
                     /\ matchingBlocks(oldWords, newWords, matchGranularity)
                            = <<>>
                     /\ Len(ops) = 1

\* the finder finds nothing at the first granularity and a match at a
\* later one
C19_Witness ==
    /\ OperationsReturned
    /\ matchGranularity >= 3
    /\ matchGranularity \notin Yielding(WholeWindow)
    /\ Yielding(WholeWindow) # {}

\* the block analysis of diff() has run and the words are in comparison form
AfterAnalysis == Analyzed /\ pc \in {"operations", "blockChanges"}

\* the character length of the tokens inside the block
InnerCharacters(words, block) ==
    Len(Join([k \in 1..(block.endIndex - block.startIndex - 1) |->
                 words[block.startIndex + 1 + k]]))

\* the score of the pair of the old block i and the new block j (from 0):
\* 0 when the types differ, else
\* 100 - round(100 * |lenOld - lenNew| / max(lenOld, lenNew)), 100 when both
\* are empty
PairScore(i, j) ==
    LET lenOld == InnerCharacters(oldWords, oldBlocks[i + 1])
        lenNew == InnerCharacters(newWords, newBlocks[j + 1])
        most   == IF lenOld > lenNew THEN lenOld ELSE lenNew
        least  == IF lenOld > lenNew THEN lenNew ELSE lenOld
    IN  IF ~SameTypeAsConfigured(blockDiff.equivalentTypes,
                                 oldBlocks[i + 1], newBlocks[j + 1])
        THEN 0
        ELSE IF most = 0 THEN 100
        ELSE 100 - ((200 * (most - least) + most) \div (2 * most))

BlockPairs == (0..(Len(oldBlocks) - 1)) \X (0..(Len(newBlocks) - 1))

\* the sets of pairs of positive score in which any two pairs are in the
\* same order in old and in new
MonotoneChains ==
    {C \in SUBSET BlockPairs :
        /\ \A q \in C : PairScore(q[1], q[2]) > 0
        /\ \A q \in C : \A r \in C :
               q # r => \/ q[1] < r[1] /\ q[2] < r[2]
                        \/ r[1] < q[1] /\ r[2] < q[2]}

RECURSIVE TotalScore(_)
TotalScore(C) ==
    IF C = {} THEN 0
    ELSE LET q == CHOOSE q \in C : TRUE
         IN  PairScore(q[1], q[2]) + TotalScore(C \ {q})

\* the anchors are in strictly increasing order of both indices, each of
\* positive score, and no monotone chain has a greater total score
BestChain(anchors) ==
    /\ \A k \in 1..Len(anchors) :
           /\ <<anchors[k].oldIndex, anchors[k].newIndex>> \in BlockPairs
           /\ PairScore(anchors[k].oldIndex, anchors[k].newIndex) > 0
    /\ \A k \in 1..(Len(anchors) - 1) :
           /\ anchors[k].oldIndex < anchors[k + 1].oldIndex
           /\ anchors[k].newIndex < anchors[k + 1].newIndex
    /\ \A C \in MonotoneChains :
           TotalScore(C)
               <= TotalScore({<<anchors[k].oldIndex, anchors[k].newIndex>> :
                                 k \in 1..Len(anchors)})

\* C20: matchBlocksByTypeSimilarity returns anchor pairs in strictly
\* increasing order of both indices, each of positive score, whose total
\* score is the greatest of all monotone chains; the score of a pair is 0
\* when the block types differ and else
\* 100 - round(100 * |lenOld - lenNew| / max(lenOld, lenNew)) over the
\* character lengths of the inner content, 100 when both are empty
C20_AnchorsAreABestChain ==
    AfterAnalysis
        => /\ BestChain(matchBlocksByTypeSimilarity(blockDiff, oldWords,
                             newWords, oldBlocks, newBlocks))
           /\ \A q \in BlockPairs :
                  scoreForMatch(blockDiff, oldWords, newWords, oldBlocks,
                                newBlocks, q[1], q[2])
                      = PairScore(q[1], q[2])

\* the anchors with the sentinels at -1 and at the block counts
Anchored(anchors) ==
    <<[oldIndex |-> -1, newIndex |-> -1]>> \o anchors
        \o <<[oldIndex |-> Len(oldBlocks), newIndex |-> Len(newBlocks)]>>

\* the blocks of old and of new in the gap after the anchor g, as 0-based
\* block indices
OldGap(anchored, g) ==
    (anchored[g].oldIndex + 1)..(anchored[g + 1].oldIndex - 1)

NewGap(anchored, g) ==
    (anchored[g].newIndex + 1)..(anchored[g + 1].newIndex - 1)

\* the two sides of the gap have equally many blocks, pairwise of the same
\* type
SameTypeSequences(anchored, g) ==
    /\ Cardinality(OldGap(anchored, g)) = Cardinality(NewGap(anchored, g))
    /\ \A j \in 0..(Cardinality(OldGap(anchored, g)) - 1) :
           SameTypeAsConfigured(blockDiff.equivalentTypes,
               oldBlocks[anchored[g].oldIndex + 2 + j],
               newBlocks[anchored[g].newIndex + 2 + j])

\* the range from the first to the last block of the gap on each side
RangeOfGap(anchored, g) ==
    [oldStart |-> oldBlocks[anchored[g].oldIndex + 2].startIndex,
     oldEnd   |-> oldBlocks[anchored[g + 1].oldIndex].endIndex,
     newStart |-> newBlocks[anchored[g].newIndex + 2].startIndex,
     newEnd   |-> newBlocks[anchored[g + 1].newIndex].endIndex]

\* changes are the ranges of the gaps in reported, in their order
RangesOfGaps(changes, anchored, reported) ==
    /\ Len(changes) = Cardinality(reported)
    /\ \A g \in reported :
           changes[Cardinality({h \in reported : h <= g})]
               = RangeOfGap(anchored, g)

\* C21 as stated: a gap between consecutive anchors is left to the
\* word-level diff if and only if its two block sequences have equal count
\* and pairwise the same type; every other gap is reported as one range from
\* the first to the last block of the gap on each side
GapsReportedUnlessSameTypes(anchored) ==
    /\ \A g \in 1..(Len(anchored) - 1) :
           ~SameTypeSequences(anchored, g)
               => OldGap(anchored, g) # {} /\ NewGap(anchored, g) # {}
    /\ RangesOfGaps(blockTypeChanges, anchored,
                    {g \in 1..(Len(anchored) - 1) :
                        ~SameTypeSequences(anchored, g)})

C21_EveryGapOfOtherTypesReported ==
    AfterAnalysis
        => GapsReportedUnlessSameTypes(
               Anchored(matchBlocksByTypeSimilarity(blockDiff, oldWords,
                            newWords, oldBlocks, newBlocks)))

\* C21, amended: a gap is left to the word-level diff if and only if one of
\* its sides holds no block, or its two block sequences have equal count and
\* pairwise the same type; every other gap is reported as one range from the
\* first to the last block of the gap on each side
GapsReportedIfBothSidesAndOtherTypes(anchored) ==
    RangesOfGaps(blockTypeChanges, anchored,
                 {g \in 1..(Len(anchored) - 1) :
                     /\ OldGap(anchored, g) # {}
                     /\ NewGap(anchored, g) # {}
                     /\ ~SameTypeSequences(anchored, g)})

C21_GapWithBlocksOfOtherTypesReported ==
    AfterAnalysis
        => GapsReportedIfBothSidesAndOtherTypes(
               Anchored(matchBlocksByTypeSimilarity(blockDiff, oldWords,
                            newWords, oldBlocks, newBlocks)))

\* a gap with more blocks on one side than on the other is reported
UnequalGapReported(anchored) ==
    /\ \E g \in 1..(Len(anchored) - 1) :
           /\ OldGap(anchored, g) # {}
           /\ NewGap(anchored, g) # {}
           /\ Cardinality(OldGap(anchored, g))
                  # Cardinality(NewGap(anchored, g))
    /\ Len(blockTypeChanges) = 1

C21_Witness ==
    /\ AfterAnalysis
    /\ UnequalGapReported(
           Anchored(matchBlocksByTypeSimilarity(blockDiff, oldWords, newWords,
                                                oldBlocks, newBlocks)))

\* the tokens of words at the 0-based positions from..(to - 1)
TokensBetween(words, from, to) ==
    [k \in 1..(to - from) |-> words[from + k]]

\* the word-level diff of two token ranges: a diff of their texts by an
\* HtmlDiff that has no block analyzer
WordLevelDiff(oldTokens, newTokens) ==
    IF oldTokens = <<>> /\ newTokens = <<>> THEN <<>>
    ELSE plainDiff(Join(oldTokens), Join(newTokens))

\* where the change before the k-th one ends, 0 for the first
OldEndBefore(changes, k) == IF k = 1 THEN 0 ELSE changes[k - 1].oldEnd + 1

NewEndBefore(changes, k) == IF k = 1 THEN 0 ELSE changes[k - 1].newEnd + 1

\* the diff of what lies before the k-th change, then its del/ins pair
ChangeRendered(changes, k) ==
    WordLevelDiff(TokensBetween(oldWords, OldEndBefore(changes, k),
                                changes[k].oldStart),
                  TokensBetween(newWords, NewEndBefore(changes, k),
                                changes[k].newStart))
        \o wrapText(Join(TokensBetween(oldWords, changes[k].oldStart,
                                       changes[k].oldEnd + 1)),
                    DEL, DIFFDEL)
        \o wrapText(Join(TokensBetween(newWords, changes[k].newStart,
                                       changes[k].newEnd + 1)),
                    INS, DIFFINS)

ChangesRendered(changes) ==
    Join([k \in 1..Len(changes) |-> ChangeRendered(changes, k)])
        \o WordLevelDiff(
               TokensBetween(oldWords, OldEndBefore(changes, Len(changes) + 1),
                             Len(oldWords)),
               TokensBetween(newWords, NewEndBefore(changes, Len(changes) + 1),
                             Len(newWords)))

\* C22: the output of diffWithBlockTypeChanges is the concatenation, in
\* order, of the word-level diff of the tokens before each change range,
\* from the end of the range before it, the del/ins pair of the range, and
\* at the end the word-level diff of the remainder; each of these diffs is
\* made by a fresh HtmlDiff without block analysis, which makes no further
\* sub-call
C22_ChangesAndWordLevelDiffsInOrder ==
    (Done /\ BlockChangePath) => returned = ChangesRendered(blockTypeChanges)

\* a change range with different tokens before it, or after it
C22_Witness ==
    /\ Done
    /\ BlockChangePath
    /\ \/ /\ blockTypeChanges[1].oldStart > 0
          /\ TokensBetween(oldWords, 0, blockTypeChanges[1].oldStart)
                 # TokensBetween(newWords, 0, blockTypeChanges[1].newStart)
       \/ /\ blockTypeChanges[1].oldEnd + 1 < Len(oldWords)
          /\ TokensBetween(oldWords, blockTypeChanges[1].oldEnd + 1,
                           Len(oldWords))
                 # TokensBetween(newWords, blockTypeChanges[1].newEnd + 1,
                                 Len(newWords))

\* the 1-based indices of the blocks that overlap the token range
\* [from, to)
Overlapping(blocks, from, to) ==
    {k \in 1..Len(blocks) :
        blocks[k].startIndex < to /\ blocks[k].endIndex >= from}

\* the i-th smallest element of a set of numbers
Nth(S, i) == CHOOSE k \in S : Cardinality({l \in S : l <= k}) = i

\* the ranges of the operation overlap a different number of blocks, or
\* blocks on one side only, or blocks paired by position of different types
OverlapsOtherBlocks(opp, inOld, inNew) ==
    \/ Cardinality(inOld) # Cardinality(inNew)
    \/ (inOld = {}) # (inNew = {})
    \/ \E i \in 1..Cardinality(inOld) :
           ~SameTypeAsConfigured(blockDiff.equivalentTypes,
                                 oldBlocks[Nth(inOld, i)],
                                 newBlocks[Nth(inNew, i)])

AsBlockReplacement(opp) ==
    /\ blockDiff.enabled
    /\ OverlapsOtherBlocks(opp,
           Overlapping(oldBlocks, opp.startInOld, opp.endInOld),
           Overlapping(newBlocks, opp.startInNew, opp.endInNew))

\* the old side in a del and then the new side in an ins, of the classes
\* diffdel and diffins for a block replacement and else both of diffmod
ReplaceRendered(opp, oldClass, newClass) ==
    <<insertTag(DEL, oldClass,
                TokensBetween(oldWords, opp.startInOld, opp.endInOld)),
      insertTag(INS, newClass,
                TokensBetween(newWords, opp.startInNew, opp.endInNew))>>

PerformsReplace ==
    /\ pc = "perform"
    /\ opIndex <= Len(ops)
    /\ ops[opIndex].action = "replace"

\* C23: a replace Operation is rendered with the classes diffdel and diffins
\* only when block diffing is enabled and its old and new ranges overlap a
\* different number of top-level blocks, or blocks on one side only, or
\* blocks paired by position of different types; in every other case, and
\* always when blockDiff is disabled, both sides are rendered with the class
\* diffmod, the old side first
C23_ReplaceIsDiffmodUnlessOtherBlocks ==
    [][PerformsReplace
           => content' = content
                  \o (IF AsBlockReplacement(ops[opIndex])
                      THEN ReplaceRendered(ops[opIndex], DIFFDEL, DIFFINS)
                      ELSE ReplaceRendered(ops[opIndex], DIFFMOD, DIFFMOD))]_vars

\* a replace Operation over other blocks, of more than tags, has been
\* rendered, with an analyzer
C23_Witness ==
    /\ pc = "perform"
    /\ opIndex > 1
    /\ ops[opIndex - 1].action = "replace"
    /\ AsBlockReplacement(ops[opIndex - 1])
    /\ \E k \in (ops[opIndex - 1].startInOld + 1)..ops[opIndex - 1].endInOld :
           ~isTag(oldWords[k])

\* a replace Operation inside blocks of the same type has been rendered,
\* with an analyzer
ReplaceOfSameBlocksRendered ==
    /\ pc = "perform"
    /\ opIndex > 1
    /\ ops[opIndex - 1].action = "replace"
    /\ blockDiff.enabled
    /\ Overlapping(oldBlocks, ops[opIndex - 1].startInOld,
                   ops[opIndex - 1].endInOld) # {}
    /\ ~AsBlockReplacement(ops[opIndex - 1])

\* the start and the end of a marker element
MarkerStart(tagName, cssClass) ==
    <<"<">> \o tagName \o <<" ", "c", "l", "a", "s", "s", "=", "\"">>
        \o cssClass \o <<"\"", ">">>

MarkerEnd(tagName) == <<"<", "/">> \o tagName \o <<">">>

\* every token of the span once and in order: a tag bare, and a token that
\* is no tag after the start of a marker if it is the first of its run and
\* before the end of a marker if it is the last of its run
RunsMarked(tagName, cssClass, span) ==
    Join([k \in 1..Len(span) |->
             IF isTag(span[k]) THEN span[k]
             ELSE (IF k = 1 \/ isTag(span[k - 1])
                   THEN MarkerStart(tagName, cssClass) ELSE <<>>)
                      \o span[k]
                      \o (IF k = Len(span) \/ isTag(span[k + 1])
                          THEN MarkerEnd(tagName) ELSE <<>>)])

DeletionMarked(opp, cssClass) ==
    IF opp.action \in {"delete", "replace"}
    THEN <<RunsMarked(DEL, cssClass,
                      TokensBetween(oldWords, opp.startInOld, opp.endInOld))>>
    ELSE <<>>

InsertionMarked(opp, cssClass) ==
    IF opp.action \in {"insert", "replace"}
    THEN <<RunsMarked(INS, cssClass,
                      TokensBetween(newWords, opp.startInNew, opp.endInNew))>>
    ELSE <<>>

PerformsMarking ==
    /\ pc = "perform"
    /\ opIndex <= Len(ops)
    /\ ops[opIndex].action \in {"insert", "delete", "replace"}

\* C24: insertTag emits every token of the span once and in order, each
\* maximal run of tokens that are no tags inside one marker element and each
\* maximal run of tags bare, so that no tag is inside a marker element of an
\* insert, delete or replace rendering
C24_RunsOfNonTagsMarkedTagsBare ==
    [][PerformsMarking
           => \E oldClass \in {DIFFDEL, DIFFMOD} :
                  \E newClass \in {DIFFINS, DIFFMOD} :
                      content' = content
                          \o DeletionMarked(ops[opIndex], oldClass)
                          \o InsertionMarked(ops[opIndex], newClass)]_vars

\* the span of tokens at the 1-based places from..to of words has a tag
\* between two tokens that are no tags
TagBetweenNonTags(words, from, to) ==
    \E i \in from..to : \E j \in from..to : \E k \in from..to :
        /\ i < j /\ j < k
        /\ ~isTag(words[i]) /\ isTag(words[j]) /\ ~isTag(words[k])

\* a deletion of such a span has been rendered
C24_Witness ==
    /\ pc = "perform"
    /\ opIndex > 1
    /\ ops[opIndex - 1].action \in {"delete", "replace"}
    /\ TagBetweenNonTags(oldWords, ops[opIndex - 1].startInOld + 1,
                         ops[opIndex - 1].endInOld)

\* C25: the matching configuration is an immutable value of one top-level
\* call: no call of findMatch writes to state that other diff calls or
\* recursive sub-calls share, that is, no options object of the whole
\* process is written to during the matching
C25_MatchingWritesNoSharedOptions == [][MatchOptions' = MatchOptions]_vars

\* the shared object holds what the matching of a diff call has left in it
SharedOptionsWritten ==
    /\ "operations" \in called
    /\ MatchOptions.blockSize >= 1

\* the token the next iteration of findBlocks looks at
CurrentWord == fbWords[fbIndex + 1]

ClosingBlockLevelTag(word) ==
    isClosingTag(word) /\ getTagName(word) \in blockLevelElements

\* the positions of the stack whose entry has this tag name
OpenNamed(stack, tagName) ==
    {j \in 1..Len(stack) : stack[j].tagName = tagName}

\* the stack without its entry at position j
WithoutEntry(stack, j) ==
    [k \in 1..(Len(stack) - 1) |-> IF k < j THEN stack[k] ELSE stack[k + 1]]

IteratesOverClosingBlockTag ==
    /\ fbPc = "loop"
    /\ fbIndex < Len(fbWords)
    /\ fbIndex' = fbIndex + 1
    /\ ClosingBlockLevelTag(CurrentWord)

\* what an iteration over a closing block-level tag does to the stack, the
\* depth counter and the block list
ClosingTagHandled(stack, open) ==
    IF open = {}
    THEN /\ fbState'.stack = stack
         /\ fbState'.currentDepth = fbState.currentDepth
         /\ fbState'.blocks = fbState.blocks
    ELSE \E j \in open :
             /\ \A k \in open : k <= j
             /\ Len(fbState'.stack) = Len(stack) - 1
             /\ fbState'.stack = WithoutEntry(stack, j)

\* no returned Block starts at an opening tag that is still on the stack
UnclosedGiveNoBlock(stack, blocks) ==
    \A j \in 1..Len(stack) : \A b \in 1..Len(blocks) :
        blocks[b].startIndex # stack[j].startIndex

\* C26: in findBlocks a closing block-level tag removes exactly one stack
\* entry, the one nearest the top with the same tag name; a closing tag with
\* no open entry of its name leaves the stack, the depth counter and the
\* block list as they are; an opening tag that is never closed gives no Block
\* and the call returns all the same
C26_ClosingTagRemovesNearestOpenEntry ==
    /\ [][IteratesOverClosingBlockTag =>
             ClosingTagHandled(fbState.stack,
                 OpenNamed(fbState.stack, getTagName(CurrentWord)))]_vars
    /\ [](fbPc = "done" => UnclosedGiveNoBlock(fbState.stack, fbBlocks))

\* <p><div></p></p>: the first </p> has removed the entry below the top, the
\* second has found no entry of its name, the div is never closed
C26_Witness ==
    /\ fbPc = "done"
    /\ fbWords = << <<"<", "p", ">">>, <<"<", "d", "i", "v", ">">>,
                    <<"<", "/", "p", ">">>, <<"<", "/", "p", ">">> >>
    /\ Len(fbState.stack) = 1
    /\ fbState.stack[1].tagName = <<"d", "i", "v">>
    /\ Len(fbBlocks) = 1
    /\ fbBlocks[1].tagName = <<"p">>

\* the first window is strictly smaller than the second on both sides
StrictlySmaller(inner, outer) ==
    /\ inner.endInOld - inner.startInOld < outer.endInOld - outer.startInOld
    /\ inner.endInNew - inner.startInNew < outer.endInNew - outer.startInNew

AllCallsOnSmallerWindows(calls) ==
    \A call \in calls : StrictlySmaller(call[2], call[1])

\* the token arrays of the sub-diff of two slices
SubDiffWords(words) == comparisonWords(convertHtmlToListOfWords(Join(words)))

\* the sub-diffs of the pending iteration of diffWithBlockTypeChanges and of
\* its trailing range do not take the block path
SubDiffsTakeNoBlockPath ==
    pc = "blockChanges" =>
        LET to == IF changeIndex <= Len(blockTypeChanges)
                  THEN [old |-> blockTypeChanges[changeIndex].oldStart,
                        new |-> blockTypeChanges[changeIndex].newStart]
                  ELSE [old |-> Len(oldWords), new |-> Len(newWords)]
        IN  ~takesBlockPath(subDiffAnalyzer,
                            SubDiffWords(Slice(oldWords, oldPos, to.old)),
                            SubDiffWords(Slice(newWords, newPos, to.new)))

\* C27: every call of diff terminates, also when a token array is empty:
\* each recursive call of findMatchingBlocks gets a window strictly smaller
\* than its caller's on both sides, and the sub-diffs of the block-aware path
\* do not take the block-aware path again
C27_DiffTerminatesOnShrinkingWindows ==
    /\ [](OperationsReturned =>
             AllCallsOnSmallerWindows(
                 recursiveCalls(oldWords, newWords, matchGranularity,
                                WholeWindow)))
    /\ []SubDiffsTakeNoBlockPath
    /\ <>Done

\* a match in the middle: findMatchingBlocks has called itself on the window
\* before the match and on the window after it
C27_Witness ==
    /\ OperationsReturned
    /\ \E call, other \in recursiveCalls(oldWords, newWords,
                                          matchGranularity, WholeWindow) :
           /\ call[1] = WholeWindow /\ other[1] = WholeWindow
           /\ call[2].endInOld <= other[2].startInOld

\* a call with an empty token array has returned
EmptyArrayDiffed ==
    Done /\ "operations" \in called /\ (oldWords = <<>> \/ newWords = <<>>)

\* the indices of words.slice(from, to)
IndicesOfSlice(from, to) ==
    [i \in 1..(IF to > from THEN to - from ELSE 0) |-> from + i - 1]

\* the change ranges are in order and disjoint on both sides
RangesInOrder(changes) ==
    /\ \A k \in 1..Len(changes) :
           /\ changes[k].oldStart <= changes[k].oldEnd
           /\ changes[k].newStart <= changes[k].newEnd
    /\ \A k \in 1..(Len(changes) - 1) :
           /\ changes[k].oldEnd < changes[k + 1].oldStart
           /\ changes[k].newEnd < changes[k + 1].newStart

\* the indices of the segments of the first n iterations of
\* diffWithBlockTypeChanges, in the order processed: the range before each
\* change, then the change
RECURSIVE IndicesThrough(_, _)
IndicesThrough(ranges, n) ==
    IF n = 0 THEN <<>>
    ELSE IndicesThrough(ranges, n - 1)
             \o IndicesOfSlice(IF n = 1 THEN 0 ELSE ranges[n - 1].end + 1,
                               ranges[n].start)
             \o IndicesOfSlice(ranges[n].start, ranges[n].end + 1)

OldRangesOf(changes) ==
    [k \in 1..Len(changes) |->
        [start |-> changes[k].oldStart, end |-> changes[k].oldEnd]]

NewRangesOf(changes) ==
    [k \in 1..Len(changes) |->
        [start |-> changes[k].newStart, end |-> changes[k].newEnd]]

\* the segments processed so far cover the indices below the position, each
\* once; with the trailing range, every index of the array
CoveredOnce(ranges, words, pos) ==
    IF Done
    THEN IndicesThrough(ranges, Len(ranges)) \o IndicesOfSlice(pos, Len(words))
             = IndicesOfSlice(0, Len(words))
    ELSE IndicesThrough(ranges, changeIndex - 1) = IndicesOfSlice(0, pos)

OnBlockChangePath == pc = "blockChanges" \/ (Done /\ BlockChangePath)

\* C28: on the path of diffWithBlockTypeChanges the change ranges are in
\* order and do not overlap, on the old and on the new side, and the segments
\* processed (the range before each change, the change, the trailing range)
\* cover every old and every new token index exactly once
C28_ChangesInOrderSegmentsCoverOnce ==
    OnBlockChangePath =>
        /\ RangesInOrder(blockTypeChanges)
        /\ CoveredOnce(OldRangesOf(blockTypeChanges), oldWords, oldPos)
        /\ CoveredOnce(NewRangesOf(blockTypeChanges), newWords, newPos)

\* two changes with tokens between them on both sides
C28_Witness ==
    /\ Done /\ BlockChangePath
    /\ Len(blockTypeChanges) >= 2
    /\ blockTypeChanges[1].oldEnd + 1 < blockTypeChanges[2].oldStart
    /\ blockTypeChanges[1].newEnd + 1 < blockTypeChanges[2].newStart

\* one change with tokens before it and tokens after it
ChangeInTheMiddle ==
    /\ Done /\ BlockChangePath
    /\ Len(blockTypeChanges) = 1
    /\ 0 < blockTypeChanges[1].oldStart
    /\ oldPos < Len(oldWords)

OldRangeEmpty(opp) == opp.startInOld = opp.endInOld

NewRangeEmpty(opp) == opp.startInNew = opp.endInNew

OldRangeFilled(opp) == opp.startInOld < opp.endInOld

NewRangeFilled(opp) == opp.startInNew < opp.endInNew

\* the ranges of an Operation are those of its action
RangesOfItsAction(opp) ==
    /\ opp.action \in {"equal", "insert", "delete", "replace"}
    /\ opp.action = "insert" => OldRangeEmpty(opp) /\ NewRangeFilled(opp)
    /\ opp.action = "delete" => OldRangeFilled(opp) /\ NewRangeEmpty(opp)
    /\ opp.action = "replace" => OldRangeFilled(opp) /\ NewRangeFilled(opp)

NoGapNextToGap(operationList) ==
    \A k \in 1..(Len(operationList) - 1) :
        operationList[k].action = "equal"
            \/ operationList[k + 1].action = "equal"

\* C29: in every list operations() returns, an insert has an empty old range
\* and a non-empty new range, a delete a non-empty old range and an empty new
\* range, a replace two non-empty ranges, no Operation has the action none,
\* and no two consecutive Operations are both other than equal
C29_OperationsHaveRangesOfTheirAction ==
    OperationsReturned =>
        /\ \A k \in 1..Len(ops) : RangesOfItsAction(ops[k])
        /\ NoGapNextToGap(ops)

\* a list with an Operation of each of the three actions
C29_Witness ==
    /\ OperationsReturned
    /\ \A action \in {"insert", "delete", "replace"} :
           \E k \in 1..Len(ops) : ops[k].action = action

\* a list whose matches were thinned out by removeOrphans
OperationsWithoutOrphans ==
    /\ OperationsReturned
    /\ Len(matchesWithoutOrphans(oldWords, newWords, matchGranularity))
           <= Len(matchingBlocks(oldWords, newWords, matchGranularity))
    /\ \E k \in 1..Len(ops) : ops[k].action = "replace"

\* the locals of findBlocks when the loop comes to the token at index n
RECURSIVE StateBefore(_, _)
StateBefore(words, n) ==
    IF n = 0 THEN findBlocksInit
    ELSE findBlocksStep(StateBefore(words, n - 1), words[n], n - 1)

\* every Block is of an element whose opening tag met an empty stack
OpenedOnEmptyStack(words, blocks) ==
    \A b \in 1..Len(blocks) :
        StateBefore(words, blocks[b].startIndex).stack = <<>>

\* no Block starts behind an opening tag that is on the stack
NoneReportedBehind(stack, blocks) ==
    \A j \in 1..Len(stack) : \A b \in 1..Len(blocks) :
        blocks[b].startIndex < stack[j].startIndex

\* C30: in findBlocks the depth counter equals the number of entries on the
\* stack at all times, a Block is reported only for an element whose opening
\* tag was seen while the stack was empty, and so, once an opening tag stays
\* on the stack, no element that starts after it is reported as a Block
C30_DepthIsStackSizeBlocksOpenedOnEmptyStack ==
    /\ fbState.currentDepth = Len(fbState.stack)
    /\ OpenedOnEmptyStack(fbWords, fbState.blocks)
    /\ NoneReportedBehind(fbState.stack, fbState.blocks)

\* an opening tag stranded by mis-nesting, a Block before it, and a whole
\* element after it that is no Block
C30_Witness ==
    /\ fbPc = "done"
    /\ Len(fbState.stack) = 1
    /\ Len(fbBlocks) = 1
    /\ fbBlocks[1].startIndex < fbState.stack[1].startIndex
    /\ fbState.stack[1].startIndex < fbBlocks[1].endIndex
    /\ \E i \in 1..(Len(fbWords) - 1) :
           /\ i - 1 > fbBlocks[1].endIndex
           /\ isOpeningTag(fbWords[i])
           /\ isClosingTag(fbWords[i + 1])
           /\ getTagName(fbWords[i]) = getTagName(fbWords[i + 1])

====
